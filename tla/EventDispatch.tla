---------------------------- MODULE EventDispatch ----------------------------
(* Events, rules and webhooks (internal/server/automation.go): a change       *)
(* records an event and a job that dispatches it; the dispatch makes a job of *)
(* every rule and of every webhook the event concerns; a rule that acts       *)
(* changes something, which records an event. Jobs may be executed again,     *)
(* late and by two workers at once. What a worker's lease, the sweep and the  *)
(* timers do in detail is JobQueue; the steps of one execution with several   *)
(* actions are AutomationRun. Here a rule has one action, and any date may be *)
(* reached at any time.                                                       *)
EXTENDS Naturals, Sequences

CONSTANTS
  Workers, Rules, Hooks,
  Kinds,       \* the types of events
  Date,        \* the type "date.reached", whose events are a rule's own
  Trigger,     \* what each rule waits for
  Deed,        \* what each rule does: the type of the change it makes, or the
               \* webhook it calls
  Subscribed,  \* the types of events each webhook is subscribed to at first
  Nobody, NoRule,
  MaxDepth,    \* how often a change may follow from a change (5)
  MaxTries,    \* automation_jobs.max_attempts
  MaxRoots,    \* bound: changes by people and dates reached
  MaxTroubles  \* bound: edits, turns, lapses, errors, losses, cancellations,
               \* retries and purges

ASSUME TriggerAssumption == Date \in Kinds /\ Trigger \in [Rules -> Kinds]
ASSUME DeedAssumption    == Deed \in [Rules -> Hooks \cup (Kinds \ {Date})] /\ Hooks \cap Kinds = {}
ASSUME HooksAssumption   == Subscribed \in [Hooks -> (SUBSET Kinds) \ {{}}]
ASSUME NobodyAssumption  == /\ Nobody \notin Workers /\ NoRule \notin Rules
                            /\ Rules \cap Hooks = {} /\ "dispatch" \notin Rules \cup Hooks
ASSUME LimitsAssumption  == /\ MaxDepth \in Nat /\ MaxTries \in Nat \ {0}
                            /\ MaxRoots \in Nat /\ MaxTroubles \in Nat

VARIABLES
  rules,     \* automation_rules: revision, enabled, and whether it may and would act
  hooks,     \* automation_webhooks: usable, and the types of events subscribed to
  events,    \* automation_events, in the order they were recorded
  rows,      \* automation_jobs, by their unique key (event_id, kind, target_id)
  run,       \* what each worker is doing
  roots, troubles,
  \* history
  steady,    \* steady[e]: who has been due event e without a change ever since
  missed,    \* keys that a dispatch passed over, since a lookup failed
  purged,    \* keys whose row retention has removed
  done,      \* executions whose action was committed ...
  again      \* ... more than once

table  == <<events, rows>>
people == <<rules, hooks>>
past   == <<steady, missed, purged, done, again>>
vars   == <<rules, hooks, events, rows, run, roots, troubles, past>>

Rule == [revision : Nat, enabled : BOOLEAN, fit : BOOLEAN]
Hook == [enabled : BOOLEAN, events : (SUBSET Kinds) \ {{}}]

\* cause is history: the event whose execution recorded this one, 0 for none.
Event == [type : Kinds, depth : Nat, subject : Rules \cup {NoRule},
          origin : Rules \cup {NoRule}, cause : Nat]

Dispatch(e)   == <<"event.dispatch", e, "dispatch">>
Execute(e, r) == <<"automation.execute", e, r>>
Deliver(e, h) == <<"webhook.deliver", e, h>>
Of(k) == k[2]
For(k) == k[3]

Settled == {"succeeded", "failed", "cancelled"}

\* New rows beside those of the table; a key that is there keeps its row.
Beside(old, new) == [k \in DOMAIN old \cup DOMAIN new |->
                          IF k \in DOMAIN old THEN old[k] ELSE new[k]]
Single(k, row) == [j \in {k} |-> row]

\* revision: of the rule; asked: an action chose the hook; acted: the receipt.
Row == [stage : Settled \cup {"open"}, holder : Workers \cup {Nobody}, lapsed : BOOLEAN,
        tries : 0 .. MaxTries, unwanted : BOOLEAN,
        depth : Nat, revision : Nat, asked : BOOLEAN, acted : BOOLEAN]
New == [stage |-> "open", holder |-> Nobody, lapsed |-> FALSE, tries |-> 0, unwanted |-> FALSE,
        depth |-> 0, revision |-> 0, asked |-> FALSE, acted |-> FALSE]
Fresh == {row \in Row : row.stage = "open"}

\* job: the row as it was claimed; found: the rows a dispatch will insert.
Idle == [step |-> "idle", key |-> <<>>, job |-> New, found |-> <<>>]

Init == /\ rules = [r \in Rules |-> [revision |-> 1, enabled |-> TRUE, fit |-> TRUE]]
        /\ hooks = [h \in Hooks |-> [enabled |-> TRUE, events |-> Subscribed[h]]]
        /\ events = <<>> /\ rows = <<>>
        /\ run = [w \in Workers |-> Idle]
        /\ roots = 0 /\ troubles = 0
        /\ steady = <<>> /\ missed = {} /\ purged = {} /\ done = {} /\ again = {}

----------------
(* Recording (enqueueEvent), in the transaction of the change. *)

\* Mutant: a rule may answer what it did itself.
WaitsForItself(r, event) == /\ Trigger[r] = event.type
                            /\ event.type = Date => r = event.subject
\* An event is of no concern to the rule whose execution recorded it, and a
\* date only to the rule that set it.
Waits(r, event) == /\ Trigger[r] = event.type
                   /\ r # event.origin
                   /\ event.type = Date => r = event.subject

ReadyRules(event) == {r \in Rules : rules[r].enabled /\ rules[r].fit /\ Waits(r, event)}
ReadyHooks(event) == {h \in Hooks : hooks[h].enabled /\ event.type \in hooks[h].events}

\* Beyond the limit the change stands and nothing is recorded.
Record(event) ==
  IF event.depth > MaxDepth THEN UNCHANGED <<events, steady>>
  ELSE /\ events' = Append(events, event)
       /\ steady' = Append(steady, ReadyRules(event) \cup ReadyHooks(event))

DispatchOf(event) ==
  IF event.depth > MaxDepth THEN <<>>
  ELSE Single(Dispatch(Len(events) + 1), [New EXCEPT !.depth = event.depth])

Root(type, subject) == [type |-> type, depth |-> 0, subject |-> subject, origin |-> NoRule, cause |-> 0]

\* Somebody's change, or a date a rule waits for (scheduleDueAutomations).
Happens(event) ==
  /\ roots < MaxRoots
  /\ roots' = roots + 1
  /\ Record(event)
  /\ rows' = Beside(rows, DispatchOf(event))
  /\ UNCHANGED <<people, run, troubles, missed, purged, done, again>>

Change  == \E type \in Kinds \ {Date} : Happens(Root(type, NoRule))
Fire(r) == /\ Trigger[r] = Date /\ rules[r].enabled
           /\ Happens(Root(Date, r))

----------------
(* People. *)

Trouble == troubles < MaxTroubles /\ troubles' = troubles + 1
Unsteady(t) == steady' = [e \in DOMAIN steady |-> steady[e] \ {t}]

\* saveAutomation gives the rule a new revision; deleting it is disabling it.
SaveRule(r) ==
  /\ Trouble
  /\ \E on \in BOOLEAN :
       rules' = [rules EXCEPT ![r].revision = @ + 1, ![r].enabled = on]
  /\ Unsteady(r)
  /\ UNCHANGED <<hooks, table, run, roots, missed, purged, done, again>>

\* The owner's rights, or what the conditions look at.
Turn(r) ==
  /\ Trouble
  /\ rules' = [rules EXCEPT ![r].fit = ~@]
  /\ Unsteady(r)
  /\ UNCHANGED <<hooks, table, run, roots, missed, purged, done, again>>

\* A save that changes several settings is several of these.
SaveHook(h) ==
  /\ Trouble
  /\ \/ hooks' = [hooks EXCEPT ![h].enabled = ~@]
     \/ \E type \in Kinds :
          /\ hooks[h].events # {type}
          /\ hooks' = [hooks EXCEPT ![h].events = (@ \ {type}) \cup ({type} \ @)]
  /\ Unsteady(h)
  /\ UNCHANGED <<rules, table, run, roots, missed, purged, done, again>>

Cancel(k) ==
  /\ Trouble
  /\ rows[k].stage = "open" /\ ~rows[k].unwanted
  /\ rows' = [rows EXCEPT ![k].unwanted = TRUE,
                          ![k].stage = IF rows[k].holder = Nobody THEN "cancelled" ELSE "open"]
  /\ UNCHANGED <<people, events, run, roots, past>>

Retry(k) ==
  /\ Trouble
  /\ rows[k].stage \in {"failed", "cancelled"}
  /\ rows' = [rows EXCEPT ![k].stage = "open", ![k].tries = 0, ![k].unwanted = FALSE]
  /\ UNCHANGED <<people, events, run, roots, past>>

----------------
(* The checks of the handlers, and the queue, reduced to what they notice. *)

At(w, step, kind) == run[w].step = step /\ run[w].key[1] = kind
Goes(w, step) == run' = [run EXCEPT ![w].step = step]

\* The row is under the lease of this run.
Holds(w) == /\ run[w].key \in DOMAIN rows
            /\ rows[run[w].key].stage = "open" /\ rows[run[w].key].holder = w

\* executeAutomation compares the rule and its conditions; deliverWebhook needs
\* a subscription that still stands, unless an action has chosen the webhook.
Allowed(w) == LET k == run[w].key IN
  /\ For(k) \in Rules => /\ rules[For(k)].enabled /\ rules[For(k)].fit
                         /\ rules[For(k)].revision = run[w].job.revision
  /\ For(k) \in Hooks => /\ hooks[For(k)].enabled
                         /\ run[w].job.asked \/ events[Of(k)].type \in hooks[For(k)].events

\* recordAutomationEffect refuses without the lease; a webhook may be off.
MayAct(w) == LET k == run[w].key IN
  /\ Holds(w) /\ ~rows[k].lapsed /\ ~rows[k].unwanted /\ ~rows[k].acted
  /\ Deed[For(k)] \in Hooks => hooks[Deed[For(k)]].enabled

Refused(w) == \/ run[w].step = "begun" /\ ~Allowed(w)
              \/ At(w, "ready", "automation.execute") /\ ~MayAct(w)

\* The lease of a holder that is still at work runs out, too.
Lapse(k) ==
  /\ Trouble
  /\ rows[k].stage = "open" /\ rows[k].holder # Nobody /\ ~rows[k].lapsed
  /\ rows' = [rows EXCEPT ![k].lapsed = TRUE]
  /\ UNCHANGED <<people, events, run, roots, past>>

Lapsed(k) == rows[k].holder # Nobody => rows[k].lapsed \/ run[rows[k].holder].key # k

\* A row is claimed when nobody has it or its holder's lease has run out.
Begin(w, k) ==
  /\ run[w].step = "idle"
  /\ rows[k].stage = "open" /\ ~rows[k].unwanted /\ rows[k].tries < MaxTries /\ Lapsed(k)
  /\ rows' = [rows EXCEPT ![k].holder = w, ![k].lapsed = FALSE, ![k].tries = @ + 1]
  /\ run' = [run EXCEPT ![w] = [step |-> "begun", key |-> k, job |-> rows[k], found |-> <<>>]]
  /\ UNCHANGED <<people, events, roots, troubles, past>>

\* A run ends with its result or in an error; its report counts while the row is
\* under its lease.
Verdict(w, answer) == LET row == rows[run[w].key] IN
  IF row.unwanted THEN "cancelled"
  ELSE IF answer = "open" /\ row.tries = MaxTries THEN "failed" ELSE answer

Report(w) ==
  /\ run[w].step # "idle"
  /\ \E answer \in {"open", "failed", "succeeded"} :
       /\ \/ answer = "succeeded" /\ run[w].step = "through" /\ UNCHANGED troubles
          \/ answer # "succeeded" /\ Refused(w) /\ UNCHANGED troubles
          \/ answer # "succeeded" /\ Trouble
       /\ rows' = IF Holds(w)
                  THEN [rows EXCEPT ![run[w].key].stage = Verdict(w, answer),
                                    ![run[w].key].holder = Nobody,
                                    ![run[w].key].lapsed = FALSE]
                  ELSE rows
  /\ run' = [run EXCEPT ![w] = Idle]
  /\ UNCHANGED <<people, events, roots, past>>

Lose(w) ==
  /\ Trouble
  /\ run[w].step # "idle"
  /\ run' = [run EXCEPT ![w] = Idle]
  /\ UNCHANGED <<people, table, roots, past>>

\* Mutant: only what was cancelled is swept.
StuckIfUnwanted(k) == rows[k].unwanted
\* The sweep settles what nobody may claim any more.
Stuck(k) == rows[k].unwanted \/ rows[k].tries = MaxTries

Sweep(k) ==
  /\ rows[k].stage = "open" /\ rows[k].holder # Nobody /\ Lapsed(k) /\ Stuck(k)
  /\ rows' = [rows EXCEPT ![k].stage = IF rows[k].unwanted THEN "cancelled" ELSE "failed",
                          ![k].holder = Nobody, ![k].lapsed = FALSE]
  /\ UNCHANGED <<people, events, run, roots, troubles, past>>

\* Retention removes a settled row, its receipts with it.
Purge(k) ==
  /\ Trouble
  /\ rows[k].stage \in Settled
  /\ rows' = [j \in DOMAIN rows \ {k} |-> rows[j]]
  /\ purged' = purged \cup {k}
  /\ UNCHANGED <<people, events, run, roots, steady, missed, done, again>>

----------------
(* The handlers. *)

\* Whom dispatchEvent is to make a job of, and the jobs of some of them.
Targets(e) == {Execute(e, r) : r \in ReadyRules(events[e])} \cup {Deliver(e, h) : h \in ReadyHooks(events[e])}
Found(targets, depth) ==
  [k \in targets |-> [New EXCEPT !.depth = depth,
                               !.revision = IF For(k) \in Rules THEN rules[For(k)].revision ELSE 0]]

\* A lookup of the owner, the access or the conditions of a target that fails
\* with the database passes the target over; the dispatch goes on.
MayPass(passed) == IF passed = {} THEN UNCHANGED troubles ELSE Trouble

\* dispatchEvent reads the webhooks and the rules ...
ReadTargets(w) == LET e == Of(run[w].key) IN
  /\ At(w, "begun", "event.dispatch")
  /\ \E passed \in SUBSET Targets(e) :
       /\ MayPass(passed)
       /\ run' = [run EXCEPT ![w].step = "ready",
                             ![w].found = Found(Targets(e) \ passed, run[w].job.depth)]
       /\ missed' = missed \cup passed
  /\ UNCHANGED <<people, table, roots, steady, purged, done, again>>

\* Mutant: the jobs are inserted whether or not the key exists.
InsertAnyway(new) == rows' = Beside(new, rows)
\* ON CONFLICT (event_id, kind, target_id) DO NOTHING
Insert(new) == rows' = Beside(rows, new)

\* Mutant: the jobs are inserted one transaction after another.
InsertTargetsSingly(w) == \E some \in SUBSET DOMAIN run[w].found :
  Insert([k \in some |-> run[w].found[k]])
InsertTargets(w) == Insert(run[w].found)

\* ... and commits all of their jobs, without a look at its lease.
CommitTargets(w) ==
  /\ At(w, "ready", "event.dispatch")
  /\ InsertTargets(w)
  /\ run' = [run EXCEPT ![w].step = "through", ![w].found = <<>>]
  /\ UNCHANGED <<people, events, roots, troubles, past>>

\* executeAutomation reads its rule and whether the receipt exists.
ReadRule(w) ==
  /\ At(w, "begun", "automation.execute") /\ Allowed(w)
  /\ LET k == run[w].key IN
     Goes(w, IF k \in DOMAIN rows /\ rows[k].acted THEN "through" ELSE "ready")
  /\ UNCHANGED <<people, table, roots, troubles, past>>

\* Mutant: an event is as deep as the one it follows from.
DepthKept(w) == run[w].job.depth
DepthAfter(w) == run[w].job.depth + 1

\* What is recorded for a change that an execution makes.
Follow(w) == LET k == run[w].key IN
  [type |-> Deed[For(k)], depth |-> DepthAfter(w), subject |-> NoRule, origin |-> For(k), cause |-> Of(k)]

\* The job of a webhook that an action chose.
Chosen(w) == LET k == run[w].key IN
  Single(Deliver(Of(k), Deed[For(k)]),
         [New EXCEPT !.depth = run[w].job.depth, !.asked = TRUE])

\* The action, what it records and its receipt are one transaction.
Act(w) == LET k == run[w].key  acted == [rows EXCEPT ![k].acted = TRUE] IN
  /\ At(w, "ready", "automation.execute") /\ MayAct(w)
  /\ \/ /\ Deed[For(k)] \in Kinds
        /\ Record(Follow(w))
        /\ rows' = Beside(acted, DispatchOf(Follow(w)))
     \/ /\ Deed[For(k)] \in Hooks
        /\ rows' = Beside(acted, Chosen(w))
        /\ UNCHANGED <<events, steady>>
  /\ Goes(w, "through")
  /\ done' = done \cup {k}
  /\ again' = IF k \in done THEN again \cup {k} ELSE again
  /\ UNCHANGED <<people, roots, troubles, missed, purged>>

\* The POST of deliverWebhook leaves nothing behind here.
Post(w) ==
  /\ At(w, "begun", "webhook.deliver") /\ Allowed(w)
  /\ Goes(w, "through")
  /\ UNCHANGED <<people, table, roots, troubles, past>>

----------------
Works(w) == ReadTargets(w) \/ CommitTargets(w) \/ ReadRule(w) \/ Act(w) \/ Post(w) \/ Report(w)
Claims(w) == \E k \in DOMAIN rows : Begin(w, k)
Sweeps    == \E k \in DOMAIN rows : Sweep(k)

Next == \/ Change
        \/ \E r \in Rules : Fire(r) \/ SaveRule(r) \/ Turn(r)
        \/ \E h \in Hooks : SaveHook(h)
        \/ \E k \in DOMAIN rows : Cancel(k) \/ Retry(k) \/ Lapse(k) \/ Purge(k)
        \/ Sweeps
        \/ \E w \in Workers : Claims(w) \/ Works(w) \/ Lose(w)

Spec == Init /\ [][Next]_vars

\* Workers poll for ever, handlers end with their context, the sweep ticks.
FairSpec == Spec /\ \A w \in Workers : WF_vars(Claims(w)) /\ WF_vars(Works(w))
                 /\ WF_vars(Sweeps)

----------------
(* Properties. *)

Keys == LET index == DOMAIN events IN
  {Dispatch(e) : e \in index} \cup {Execute(e, r) : e \in index, r \in Rules}
    \cup {Deliver(e, h) : e \in index, h \in Hooks}

TypeOK ==
  /\ rules \in [Rules -> Rule] /\ hooks \in [Hooks -> Hook]
  /\ events \in Seq(Event) /\ roots \in Nat /\ troubles \in Nat
  /\ DOMAIN rows \subseteq Keys /\ \A k \in DOMAIN rows : rows[k] \in Row
  /\ DOMAIN run = Workers
  /\ \A w \in Workers :
       \/ run[w] = Idle
       \/ /\ DOMAIN run[w] = DOMAIN Idle
          /\ run[w].step \in {"begun", "ready", "through"} /\ run[w].key \in Keys
          /\ run[w].job \in Row
          /\ DOMAIN run[w].found \subseteq Keys
          /\ \A k \in DOMAIN run[w].found : run[w].found[k] \in Fresh
  /\ steady \in Seq(SUBSET (Rules \cup Hooks)) /\ Len(steady) = Len(events)
  /\ missed \subseteq Keys /\ purged \subseteq Keys /\ done \subseteq Keys /\ again \subseteq done

\* However often a dispatch and an execution are executed, by whom and how late,
\* a rule acts once on an event, unless retention has removed the execution that
\* did and an administrator or a late worker dispatches the event again.
OncePerEvent == again \subseteq purged

\* Rules that answer each other stop: every event that follows from another lies
\* one deeper, none lies deeper than the limit (the page of automations says that
\* cycles are limited), no rule answers its own event, and a date is only
\* answered by the rule that set it.
CascadeBounded ==
  /\ \A e \in DOMAIN events : LET event == events[e] IN
       /\ event.depth <= MaxDepth
       /\ event.cause # 0 =>
            /\ event.cause \in 1 .. e - 1
            /\ event.depth = events[event.cause].depth + 1
            /\ event.origin # events[event.cause].origin
  /\ \A k \in done : LET event == events[Of(k)] IN
       For(k) # event.origin /\ (event.type = Date => For(k) = event.subject)

\* A dispatch that has succeeded has reached every rule and webhook that has been
\* due the event without a change ever since, and a rule in its present revision,
\* but for one that a dispatch passed over: dispatchEvent takes an error of the
\* database in the lookup of its owner, access or conditions for a refusal, and
\* commits without it (automation.go:194-198, 233-239).
Reached(e, t) ==
  \E k \in {Execute(e, t), Deliver(e, t)} :
     \/ k \in missed \cup purged
     \/ k \in DOMAIN rows /\ (t \in Rules => rows[k].revision = rules[t].revision)

DispatchComplete == \A e \in DOMAIN events :
  Dispatch(e) \in DOMAIN rows /\ rows[Dispatch(e)].stage = "succeeded"
    => \A t \in steady[e] : Reached(e, t)

\* An event is answered by everybody who is due it and was not passed over for an
\* error of the database, and by nobody twice.
EventsAnswered == OncePerEvent /\ DispatchComplete

\* Once people and troubles come to rest, so does the queue.
CascadeEnds == <>[](\A k \in DOMAIN rows : rows[k].stage # "open")

----------------
(* Why they hold. *)

\* A job is of an event its rule waits for, and as deep as the event.
Fits(k, job) ==
  /\ job.depth = events[Of(k)].depth
  /\ For(k) \in Rules => Waits(For(k), events[Of(k)])

JobsFit ==
  /\ \A k \in DOMAIN rows : Fits(k, rows[k])
  /\ \A w \in Workers : run[w].step # "idle" =>
       /\ Fits(run[w].key, run[w].job)
       /\ \A k \in DOMAIN run[w].found : Fits(k, run[w].found[k])

\* What was done has its receipt, until retention removes both.
DoneHasReceipt == \A k \in done \ purged : k \in DOMAIN rows /\ rows[k].acted

\* Whoever is still due an event is ready for it as it was.
SteadyIsReady == \A e \in DOMAIN events :
  steady[e] \subseteq ReadyRules(events[e]) \cup ReadyHooks(events[e])

\* The job of a rule that is still due the event is for its present revision,
\* whoever has read it or inserted it.
Present(k, job) == For(k) \in steady[Of(k)] \cap Rules => job.revision = rules[For(k)].revision
JobsArePresent ==
  /\ \A k \in DOMAIN rows : Present(k, rows[k])
  /\ \A w \in Workers : \A k \in DOMAIN run[w].found : Present(k, run[w].found[k])

\* A dispatch has found everybody that is still due, or passed them over, and
\* inserts all it has found.
DispatchersReach == \A w \in Workers : \A e \in DOMAIN events :
  run[w].key = Dispatch(e) => \A t \in steady[e] :
    /\ run[w].step = "ready" => {Execute(e, t), Deliver(e, t)} \cap (DOMAIN run[w].found \cup missed) # {}
    /\ run[w].step = "through" => Reached(e, t)

DispatchInv == /\ TypeOK /\ JobsFit /\ DoneHasReceipt /\ SteadyIsReady /\ JobsArePresent
               /\ DispatchersReach /\ OncePerEvent /\ CascadeBounded /\ DispatchComplete
==============================================================================
