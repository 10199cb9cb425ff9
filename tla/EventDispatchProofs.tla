-------------------------- MODULE EventDispatchProofs --------------------------
(* Proofs about EventDispatch: a rule acts once on an event, cascades stay     *)
(* bounded and dispatches are complete, for any rules, webhooks, workers and   *)
(* limits.                                                                     *)
EXTENDS EventDispatch, TLAPS

----------------
(* Keys.                                                                      *)
LEMMA KeyParts == ASSUME NEW e, NEW t
                  PROVE  /\ Of(Dispatch(e)) = e /\ For(Dispatch(e)) = "dispatch"
                         /\ Of(Execute(e, t)) = e /\ For(Execute(e, t)) = t
                         /\ Of(Deliver(e, t)) = e /\ For(Deliver(e, t)) = t
                         /\ Dispatch(e)[1] = "event.dispatch"
                         /\ Execute(e, t)[1] = "automation.execute"
                         /\ Deliver(e, t)[1] = "webhook.deliver"
  BY DEF Of, For, Dispatch, Execute, Deliver

\* A key is of one of the three kinds, and is known by its kind and its parts.
IsDispatch(k) == k = Dispatch(Of(k)) /\ For(k) = "dispatch" /\ k[1] = "event.dispatch"
IsExecute(k)  == k = Execute(Of(k), For(k)) /\ For(k) \in Rules /\ k[1] = "automation.execute"
IsDeliver(k)  == k = Deliver(Of(k), For(k)) /\ For(k) \in Hooks /\ k[1] = "webhook.deliver"

LEMMA DispatchIs == ASSUME NEW e PROVE Of(Dispatch(e)) = e /\ IsDispatch(Dispatch(e))
  BY KeyParts DEF IsDispatch

LEMMA KeyKinds == ASSUME NEW k \in Keys
                  PROVE  /\ Of(k) \in DOMAIN events
                         /\ IsDispatch(k) \/ IsExecute(k) \/ IsDeliver(k)
<1>1. \/ \E e \in DOMAIN events : k = Dispatch(e)
      \/ \E e \in DOMAIN events, r \in Rules : k = Execute(e, r)
      \/ \E e \in DOMAIN events, h \in Hooks : k = Deliver(e, h)
  BY DEF Keys
<1>2. CASE \E e \in DOMAIN events : k = Dispatch(e) BY <1>2, KeyParts DEF IsDispatch
<1>3. CASE \E e \in DOMAIN events, r \in Rules : k = Execute(e, r) BY <1>3, KeyParts DEF IsExecute
<1>4. CASE \E e \in DOMAIN events, h \in Hooks : k = Deliver(e, h) BY <1>4, KeyParts DEF IsDeliver
<1> QED BY <1>1, <1>2, <1>3, <1>4

LEMMA KeysMade == /\ \A e \in DOMAIN events : Dispatch(e) \in Keys
                  /\ \A e \in DOMAIN events, r \in Rules : Execute(e, r) \in Keys
                  /\ \A e \in DOMAIN events, h \in Hooks : Deliver(e, h) \in Keys
  BY DEF Keys

LEMMA KeysStay == /\ events' = events => Keys' = Keys
                  /\ DOMAIN events \subseteq DOMAIN events' => Keys \subseteq Keys'
  BY DEF Keys

LEMMA IdleParts == /\ DOMAIN Idle = {"step", "key", "job", "found"}
                   /\ Idle.step = "idle" /\ Idle.found = <<>> /\ DOMAIN Idle.found = {}
  BY DEF Idle

LEMMA NewRow == /\ New \in Row
                /\ \A d \in Nat : [New EXCEPT !.depth = d] \in Row
                /\ \A d, v \in Nat : [New EXCEPT !.depth = d, !.revision = v] \in Row
                /\ \A d \in Nat : [New EXCEPT !.depth = d, !.asked = TRUE] \in Row
<1>1. New \in Row BY LimitsAssumption DEF New, Row, Settled
<1>2. \A row \in Row : /\ \A d \in Nat : [row EXCEPT !.depth = d] \in Row
                       /\ \A v \in Nat : [row EXCEPT !.revision = v] \in Row
                       /\ [row EXCEPT !.asked = TRUE] \in Row
  BY DEF Row
<1>3. ASSUME NEW d \in Nat, NEW v \in Nat
      PROVE  /\ [New EXCEPT !.depth = d, !.revision = v] = [[New EXCEPT !.depth = d] EXCEPT !.revision = v]
             /\ [New EXCEPT !.depth = d, !.asked = TRUE] = [[New EXCEPT !.depth = d] EXCEPT !.asked = TRUE]
  OBVIOUS
<1> QED BY <1>1, <1>2, <1>3

----------------
(* What the invariant says of its parts.                                      *)
LEMMA RunTyped == ASSUME TypeOK, NEW w \in Workers, run[w].step # "idle"
                  PROVE  /\ DOMAIN run[w] = DOMAIN Idle
                         /\ run[w].step \in {"begun", "ready", "through"} /\ run[w].key \in Keys
                         /\ run[w].job \in Row /\ DOMAIN run[w].found \subseteq Keys
                         /\ \A k \in DOMAIN run[w].found : run[w].found[k] \in Fresh
  BY IdleParts DEF TypeOK

LEMMA EventTyped == ASSUME TypeOK, NEW e \in DOMAIN events
                    PROVE  /\ events[e] \in Event /\ events[e].depth \in Nat
                           /\ e \in DOMAIN steady /\ steady[e] \subseteq Rules \cup Hooks
<1>1. events \in Seq(Event) /\ steady \in Seq(SUBSET (Rules \cup Hooks)) /\ Len(steady) = Len(events)
  BY DEF TypeOK
<1>2. e \in 1 .. Len(events) BY <1>1
<1>3. events[e] \in Event BY <1>1, <1>2
<1>4. steady[e] \in SUBSET (Rules \cup Hooks) /\ e \in DOMAIN steady BY <1>1, <1>2
<1> QED BY <1>3, <1>4 DEF Event

\* What a dispatch finds is whom its event concerns but those it passes over,
\* with jobs that fit it.
Finds(found, e, depth, passed) ==
  /\ DOMAIN found \subseteq Keys
  /\ \A k \in DOMAIN found :
       /\ found[k] \in Fresh /\ Of(k) = e /\ found[k].depth = depth
       /\ For(k) \in Rules => Waits(For(k), events[e]) /\ found[k].revision = rules[For(k)].revision
  /\ \A t \in ReadyRules(events[e]) \cup ReadyHooks(events[e]) :
       {Execute(e, t), Deliver(e, t)} \cap (DOMAIN found \cup passed) # {}

LEMMA FoundIs ==
  ASSUME TypeOK, NEW e \in DOMAIN events, NEW depth \in Nat, NEW passed \in SUBSET Targets(e)
  PROVE  Finds(Found(Targets(e) \ passed, depth), e, depth, passed)
<1> DEFINE K == {Execute(e, r) : r \in ReadyRules(events[e])}
                  \cup {Deliver(e, h) : h \in ReadyHooks(events[e])}
           job(k) == [New EXCEPT !.depth = depth,
                                 !.revision = IF For(k) \in Rules THEN rules[For(k)].revision ELSE 0]
<1>1. Targets(e) = K /\ Found(K \ passed, depth) = [k \in K \ passed |-> job(k)] /\ passed \subseteq K
  BY DEF Targets, Found
<1>2. \A r \in ReadyRules(events[e]) : r \in Rules /\ Waits(r, events[e]) BY DEF ReadyRules
<1>3. \A h \in ReadyHooks(events[e]) : h \in Hooks /\ h \notin Rules
  BY NobodyAssumption DEF ReadyHooks
<1>4. K \subseteq Keys BY <1>2, <1>3, KeysMade
<1>5. ASSUME NEW k \in K
      PROVE  Of(k) = e /\ (For(k) \in Rules => Waits(For(k), events[e]))
  <2>1. CASE \E r \in ReadyRules(events[e]) : k = Execute(e, r) BY <2>1, <1>2, KeyParts
  <2>2. CASE \E h \in ReadyHooks(events[e]) : k = Deliver(e, h) BY <2>2, <1>3, KeyParts
  <2> QED BY <2>1, <2>2
<1>6. ASSUME NEW k \in K
      PROVE  /\ job(k) \in Fresh /\ job(k).depth = depth
             /\ For(k) \in Rules => job(k).revision = rules[For(k)].revision
  <2>1. (IF For(k) \in Rules THEN rules[For(k)].revision ELSE 0) \in Nat BY DEF TypeOK, Rule
  <2>2. job(k) \in Row BY <2>1, NewRow
  <2> QED BY <2>2 DEF New, Fresh
<1>7. \A t \in ReadyRules(events[e]) \cup ReadyHooks(events[e]) :
        {Execute(e, t), Deliver(e, t)} \cap K # {}
  OBVIOUS
<1> DEFINE found == [k \in K \ passed |-> job(k)]
<1> HIDE DEF K, job
<1>8. DOMAIN found = K \ passed /\ \A k \in DOMAIN found : k \in K /\ found[k] = job(k)
  OBVIOUS
<1>9. Found(Targets(e) \ passed, depth) = found BY <1>1
<1> HIDE DEF found
<1>10. \A t \in ReadyRules(events[e]) \cup ReadyHooks(events[e]) :
         {Execute(e, t), Deliver(e, t)} \cap (DOMAIN found \cup passed) # {}
  BY <1>1, <1>7, <1>8
<1>11. DOMAIN found \subseteq Keys /\ \A k \in DOMAIN found : k \in K /\ found[k] = job(k)
  BY <1>4, <1>8
<1>12. Finds(found, e, depth, passed) BY <1>5, <1>6, <1>10, <1>11 DEF Finds
<1> QED BY <1>9, <1>12

----------------
(* Steps that leave events, rules and webhooks alone: a row keeps what is of   *)
(* its event and its rule, and succeeds only when its worker is through; a     *)
(* worker ends, begins, reads or acts.                                        *)
RowStep ==
  /\ DOMAIN rows' = DOMAIN rows
  /\ \A k \in DOMAIN rows :
       /\ rows'[k] \in Row
       /\ rows'[k].depth = rows[k].depth /\ rows'[k].revision = rows[k].revision
       /\ rows'[k].acted = rows[k].acted
       /\ rows'[k].stage = "succeeded" /\ rows[k].stage # "succeeded" =>
            \E w \in Workers : run[w].step = "through" /\ run[w].key = k

Begins(w) == /\ DOMAIN run'[w] = DOMAIN Idle /\ run'[w].step = "begun"
             /\ run'[w].key \in DOMAIN rows /\ run'[w].job = rows[run'[w].key]
             /\ run'[w].found = <<>>
Keeps(w)  == /\ run[w].step # "idle" /\ DOMAIN run'[w] = DOMAIN Idle
             /\ run'[w].key = run[w].key /\ run'[w].job = run[w].job
Reads(w)  == /\ Keeps(w) /\ IsDispatch(run[w].key) /\ run'[w].step = "ready"
             /\ \E passed \in SUBSET Targets(Of(run[w].key)) :
                  /\ run'[w].found = Found(Targets(Of(run[w].key)) \ passed, run[w].job.depth)
                  /\ missed' = missed \cup passed
Moves(w)  == /\ Keeps(w) /\ ~IsDispatch(run[w].key) /\ run'[w].step \in {"ready", "through"}
             /\ run'[w].found = run[w].found
RunStep   == /\ DOMAIN run' = Workers
             /\ \A w \in Workers : \/ run'[w] = run[w] \/ run'[w] = Idle
                                    \/ Begins(w) \/ Reads(w) \/ Moves(w)

LEMMA ReadIs ==
  ASSUME DispatchInv, NEW w \in Workers, Reads(w)
  PROVE  /\ Of(run[w].key) \in DOMAIN events
         /\ DOMAIN run'[w].found \subseteq Keys
         /\ \A k \in DOMAIN run'[w].found :
              /\ run'[w].found[k] \in Fresh /\ Fits(k, run'[w].found[k]) /\ Present(k, run'[w].found[k])
         /\ \A t \in steady[Of(run[w].key)] :
              {Execute(Of(run[w].key), t), Deliver(Of(run[w].key), t)} \cap (DOMAIN run'[w].found \cup missed') # {}
<1> DEFINE e == Of(run[w].key)  depth == run[w].job.depth
<1>1. run[w].step # "idle" /\ TypeOK BY DEF Reads, Keeps, DispatchInv
<1>2. e \in DOMAIN events /\ run[w].job \in Row BY <1>1, RunTyped, KeyKinds
<1>3. depth \in Nat /\ depth = events[e].depth BY <1>1, <1>2 DEF Row, DispatchInv, JobsFit, Fits
<1>4. PICK passed \in SUBSET Targets(e) :
        run'[w].found = Found(Targets(e) \ passed, depth) /\ missed' = missed \cup passed
  BY DEF Reads
<1>5. steady[e] \subseteq ReadyRules(events[e]) \cup ReadyHooks(events[e])
  BY <1>2 DEF DispatchInv, SteadyIsReady
<1> HIDE DEF e, depth
<1>6. Finds(run'[w].found, e, depth, passed) BY <1>1, <1>2, <1>3, <1>4, FoundIs
<1>7. \A k \in DOMAIN run'[w].found : Fits(k, run'[w].found[k]) /\ Present(k, run'[w].found[k])
  BY <1>3, <1>6 DEF Finds, Fits, Present
<1> QED BY <1>2, <1>4, <1>5, <1>6, <1>7 DEF e, Finds

\* Beside, only what a dispatch passes over is noted.
Quiet == /\ UNCHANGED <<rules, hooks, events, steady, purged, done, again>>
         /\ missed \subseteq missed' /\ missed' \subseteq Keys

LEMMA QuietKeeps ==
  ASSUME DispatchInv, RowStep, RunStep, roots' \in Nat, troubles' \in Nat, Quiet
  PROVE  DispatchInv'
<1> USE DEF Quiet
<1>0. TypeOK BY DEF DispatchInv
<1>1. Keys' = Keys BY KeysStay
<1>2. ASSUME NEW w \in Workers, run'[w] # Idle, run'[w] # run[w]
      PROVE  /\ DOMAIN run'[w] = DOMAIN Idle /\ run'[w].step \in {"begun", "ready", "through"}
             /\ run'[w].key \in Keys /\ run'[w].job \in Row /\ Fits(run'[w].key, run'[w].job)
             /\ DOMAIN run'[w].found \subseteq Keys
             /\ \A k \in DOMAIN run'[w].found :
                  /\ run'[w].found[k] \in Fresh /\ Fits(k, run'[w].found[k]) /\ Present(k, run'[w].found[k])
  <2>1. CASE Begins(w)
    <3>1. run'[w].key \in Keys /\ run'[w].job \in Row /\ Fits(run'[w].key, run'[w].job)
      BY <2>1, <1>0 DEF Begins, TypeOK, DispatchInv, JobsFit
    <3>2. DOMAIN run'[w].found = {} BY <2>1 DEF Begins
    <3> QED BY <2>1, <3>1, <3>2 DEF Begins
  <2>2. CASE Reads(w)
    <3>1. run[w].step # "idle" BY <2>2 DEF Reads, Keeps
    <3>2. run[w].key \in Keys /\ run[w].job \in Row /\ Fits(run[w].key, run[w].job)
      BY <3>1, <1>0, RunTyped DEF DispatchInv, JobsFit
    <3> QED BY <2>2, <3>2, ReadIs DEF Reads, Keeps
  <2>3. CASE Moves(w)
    <3>1. run[w].step # "idle" BY <2>3 DEF Moves, Keeps
    <3>2. /\ run[w].key \in Keys /\ run[w].job \in Row /\ Fits(run[w].key, run[w].job)
          /\ DOMAIN run[w].found \subseteq Keys
          /\ \A k \in DOMAIN run[w].found :
               /\ run[w].found[k] \in Fresh /\ Fits(k, run[w].found[k]) /\ Present(k, run[w].found[k])
      BY <3>1, <1>0, RunTyped DEF DispatchInv, JobsFit, JobsArePresent
    <3> QED BY <2>3, <3>2 DEF Moves, Keeps
  <2> QED BY <1>2, <2>1, <2>2, <2>3 DEF RunStep
<1>3. TypeOK'
  <2>1. \A w \in Workers :
          \/ run'[w] = Idle
          \/ /\ DOMAIN run'[w] = DOMAIN Idle
             /\ run'[w].step \in {"begun", "ready", "through"} /\ run'[w].key \in Keys
             /\ run'[w].job \in Row
             /\ DOMAIN run'[w].found \subseteq Keys
             /\ \A k \in DOMAIN run'[w].found : run'[w].found[k] \in Fresh
    BY <1>0, <1>2 DEF TypeOK
  <2>2. DOMAIN rows' \subseteq Keys /\ \A k \in DOMAIN rows' : rows'[k] \in Row
    BY <1>0 DEF RowStep, TypeOK
  <2>3. DOMAIN run' = Workers BY DEF RunStep
  <2> QED BY <1>0, <1>1, <2>1, <2>2, <2>3 DEF TypeOK
<1>4. \A k, job : (Fits(k, job) <=> Fits(k, job)') /\ (Present(k, job) <=> Present(k, job)')
  BY DEF Fits, Present, Waits
<1>5. \A k \in DOMAIN rows : /\ Fits(k, rows'[k]) <=> Fits(k, rows[k])
                             /\ Present(k, rows'[k]) <=> Present(k, rows[k])
  BY DEF RowStep, Fits, Present
<1>6. JobsFit'
  <2>1. \A k \in DOMAIN rows' : Fits(k, rows'[k]) BY <1>5 DEF RowStep, DispatchInv, JobsFit
  <2>2. \A w \in Workers : run'[w].step # "idle" =>
          /\ Fits(run'[w].key, run'[w].job)
          /\ \A k \in DOMAIN run'[w].found : Fits(k, run'[w].found[k])
    BY <1>2, IdleParts DEF DispatchInv, JobsFit
  <2> QED BY <2>1, <2>2 DEF JobsFit, Fits, Waits
<1>7. DoneHasReceipt' BY DEF DispatchInv, DoneHasReceipt, RowStep
<1>8. SteadyIsReady' BY DEF DispatchInv, SteadyIsReady, ReadyRules, ReadyHooks, Waits
<1>9. JobsArePresent'
  <2>1. \A k \in DOMAIN rows' : Present(k, rows'[k])
    BY <1>5 DEF RowStep, DispatchInv, JobsArePresent
  <2>2. \A w \in Workers : \A k \in DOMAIN run'[w].found : Present(k, run'[w].found[k])
    BY <1>2, IdleParts DEF DispatchInv, JobsArePresent
  <2> QED BY <2>1, <2>2 DEF JobsArePresent, Present
<1>10. \A e \in DOMAIN events : \A t : Reached(e, t) => Reached(e, t)' BY DEF Reached, RowStep
<1>11. DispatchersReach'
  <2> SUFFICES ASSUME NEW w \in Workers, NEW e \in DOMAIN events, run'[w].key = Dispatch(e),
                      NEW t \in steady[e]
               PROVE  /\ run'[w].step = "ready" =>
                           {Execute(e, t), Deliver(e, t)} \cap (DOMAIN run'[w].found \cup missed') # {}
                      /\ run'[w].step = "through" => Reached(e, t)'
    BY DEF DispatchersReach
  <2>1. CASE run'[w] = run[w] BY <2>1, <1>10 DEF DispatchInv, DispatchersReach
  <2>2. CASE run'[w] = Idle \/ Begins(w) BY <2>2, IdleParts DEF Begins
  <2>3. CASE Reads(w)
    <3>1. run[w].key = Dispatch(e) /\ Of(run[w].key) = e BY <2>3, DispatchIs DEF Reads, Keeps
    <3> QED BY <2>3, <3>1, ReadIs DEF Reads
  <2>4. CASE Moves(w) BY <2>4, DispatchIs DEF Moves, Keeps
  <2> QED BY <2>1, <2>2, <2>3, <2>4 DEF RunStep
<1>12. OncePerEvent' /\ CascadeBounded' BY DEF DispatchInv, OncePerEvent, CascadeBounded
<1>13. DispatchComplete'
  <2> SUFFICES ASSUME NEW e \in DOMAIN events, Dispatch(e) \in DOMAIN rows',
                      rows'[Dispatch(e)].stage = "succeeded", NEW t \in steady[e]
               PROVE  Reached(e, t)
    BY <1>10 DEF DispatchComplete
  <2>1. CASE rows[Dispatch(e)].stage = "succeeded"
    BY <2>1 DEF RowStep, DispatchInv, DispatchComplete
  <2>2. CASE rows[Dispatch(e)].stage # "succeeded"
    BY <2>2 DEF RowStep, DispatchInv, DispatchersReach
  <2> QED BY <2>1, <2>2
<1> QED BY <1>3, <1>6, <1>7, <1>8, <1>9, <1>11, <1>12, <1>13 DEF DispatchInv

LEMMA RowPut == ASSUME TypeOK, NEW k \in DOMAIN rows, NEW row \in Row,
                       row.depth = rows[k].depth, row.revision = rows[k].revision,
                       row.acted = rows[k].acted,
                       row.stage = "succeeded" => \E w \in Workers : run[w].step = "through" /\ run[w].key = k,
                       rows' = [rows EXCEPT ![k] = row]
                PROVE  RowStep
  BY DEF RowStep, TypeOK

LEMMA RowsStay == ASSUME TypeOK, UNCHANGED rows PROVE RowStep
  BY DEF RowStep, TypeOK

LEMMA RunStays == ASSUME TypeOK, UNCHANGED run PROVE RunStep
  BY DEF RunStep, TypeOK

LEMMA RunPut == ASSUME TypeOK, NEW w \in Workers, NEW memory, run' = [run EXCEPT ![w] = memory],
                       \/ memory = Idle
                       \/ Begins(w) \/ Reads(w) \/ Moves(w)
                PROVE  RunStep
  BY DEF RunStep, TypeOK

LEMMA CancelQuiet == ASSUME TypeOK, NEW k \in DOMAIN rows, Cancel(k) PROVE RowStep
<1> DEFINE row == [rows[k] EXCEPT !.unwanted = TRUE,
                                  !.stage = IF rows[k].holder = Nobody THEN "cancelled" ELSE "open"]
<1>1. rows' = [rows EXCEPT ![k] = row] BY DEF Cancel
<1>2. rows[k] \in Row BY DEF TypeOK
<1>3. /\ row \in Row /\ row.depth = rows[k].depth /\ row.revision = rows[k].revision
      /\ row.acted = rows[k].acted /\ row.stage # "succeeded"
  BY <1>2 DEF Row, Settled
<1> HIDE DEF row
<1> QED BY <1>1, <1>3, RowPut

LEMMA RetryQuiet == ASSUME TypeOK, NEW k \in DOMAIN rows, Retry(k) PROVE RowStep
<1> DEFINE row == [rows[k] EXCEPT !.stage = "open", !.tries = 0, !.unwanted = FALSE]
<1>1. rows' = [rows EXCEPT ![k] = row] BY DEF Retry
<1>2. rows[k] \in Row /\ 0 \in 0 .. MaxTries BY LimitsAssumption DEF TypeOK
<1>3. /\ row \in Row /\ row.depth = rows[k].depth /\ row.revision = rows[k].revision
      /\ row.acted = rows[k].acted /\ row.stage # "succeeded"
  BY <1>2 DEF Row, Settled
<1> HIDE DEF row
<1> QED BY <1>1, <1>3, RowPut

LEMMA LapseQuiet == ASSUME TypeOK, NEW k \in DOMAIN rows, Lapse(k) PROVE RowStep
<1> DEFINE row == [rows[k] EXCEPT !.lapsed = TRUE]
<1>1. rows' = [rows EXCEPT ![k] = row] /\ rows[k].stage = "open" BY DEF Lapse
<1>2. rows[k] \in Row BY DEF TypeOK
<1>3. /\ row \in Row /\ row.depth = rows[k].depth /\ row.revision = rows[k].revision
      /\ row.acted = rows[k].acted /\ row.stage # "succeeded"
  BY <1>1, <1>2 DEF Row, Settled
<1> HIDE DEF row
<1> QED BY <1>1, <1>3, RowPut

LEMMA SweepQuiet == ASSUME TypeOK, NEW k \in DOMAIN rows, Sweep(k) PROVE RowStep
<1> DEFINE row == [rows[k] EXCEPT !.stage = IF rows[k].unwanted THEN "cancelled" ELSE "failed",
                                  !.holder = Nobody, !.lapsed = FALSE]
<1>1. rows' = [rows EXCEPT ![k] = row] BY DEF Sweep
<1>2. rows[k] \in Row BY DEF TypeOK
<1>3. /\ row \in Row /\ row.depth = rows[k].depth /\ row.revision = rows[k].revision
      /\ row.acted = rows[k].acted /\ row.stage # "succeeded"
  BY <1>2 DEF Row, Settled
<1> HIDE DEF row
<1> QED BY <1>1, <1>3, RowPut

LEMMA BeginQuiet == ASSUME TypeOK, NEW w \in Workers, NEW k \in DOMAIN rows, Begin(w, k)
                    PROVE  RowStep /\ RunStep
<1> DEFINE row == [rows[k] EXCEPT !.holder = w, !.lapsed = FALSE, !.tries = @ + 1]
           memory == [step |-> "begun", key |-> k, job |-> rows[k], found |-> <<>>]
<1>1. rows' = [rows EXCEPT ![k] = row] /\ rows[k].stage = "open" BY DEF Begin
<1>2. rows[k] \in Row /\ rows[k].tries + 1 \in 0 .. MaxTries
  BY LimitsAssumption DEF TypeOK, Begin, Row
<1>3. /\ row \in Row /\ row.depth = rows[k].depth /\ row.revision = rows[k].revision
      /\ row.acted = rows[k].acted /\ row.stage # "succeeded"
  BY <1>1, <1>2 DEF Row, Settled
<1>4. run' = [run EXCEPT ![w] = memory] BY DEF Begin
<1>5. run'[w] = memory BY <1>4 DEF TypeOK
<1>6. Begins(w) BY <1>5, IdleParts DEF Begins
<1> HIDE DEF row, memory
<1>7. RowStep BY <1>1, <1>3, RowPut
<1>8. RunStep BY <1>4, <1>6, RunPut
<1> QED BY <1>7, <1>8

LEMMA ReportQuiet == ASSUME TypeOK, NEW w \in Workers, Report(w) PROVE RowStep /\ RunStep
<1> DEFINE k == run[w].key
<1>1. PICK answer \in {"open", "failed", "succeeded"} :
        /\ answer = "succeeded" => run[w].step = "through"
        /\ rows' = IF Holds(w)
                   THEN [rows EXCEPT ![k].stage = Verdict(w, answer),
                                     ![k].holder = Nobody, ![k].lapsed = FALSE]
                   ELSE rows
  BY DEF Report
<1>2. RunStep BY RunPut DEF Report
<1>3. CASE ~Holds(w) BY <1>1, <1>2, <1>3, RowsStay
<1>4. CASE Holds(w)
  <2> DEFINE row == [rows[k] EXCEPT !.stage = Verdict(w, answer), !.holder = Nobody, !.lapsed = FALSE]
  <2>1. k \in DOMAIN rows /\ rows' = [rows EXCEPT ![k] = row] BY <1>1, <1>4 DEF Holds
  <2>2. rows[k] \in Row BY <2>1 DEF TypeOK
  <2>3. /\ Verdict(w, answer) \in Settled \cup {"open"}
        /\ Verdict(w, answer) = "succeeded" => answer = "succeeded"
    BY DEF Verdict, Settled
  <2>4. /\ row \in Row /\ row.depth = rows[k].depth /\ row.revision = rows[k].revision
        /\ row.acted = rows[k].acted /\ row.stage = Verdict(w, answer)
    BY <2>2, <2>3 DEF Row
  <2> HIDE DEF row
  <2>5. row.stage = "succeeded" => run[w].step = "through" /\ run[w].key = k BY <1>1, <2>3, <2>4
  <2>6. RowStep BY <2>1, <2>4, <2>5, RowPut
  <2> QED BY <1>2, <2>6
<1> QED BY <1>3, <1>4

LEMMA ReadTargetsQuiet == ASSUME TypeOK, NEW w \in Workers, ReadTargets(w) PROVE RowStep /\ RunStep
<1> DEFINE e == Of(run[w].key)
           memory(p) == [run[w] EXCEPT !.step = "ready", !.found = Found(Targets(e) \ p, run[w].job.depth)]
<1>1. PICK passed \in SUBSET Targets(e) :
        /\ run' = [run EXCEPT ![w] = memory(passed)] /\ missed' = missed \cup passed
        /\ run[w].step = "begun" /\ run[w].key[1] = "event.dispatch" /\ UNCHANGED rows
  BY DEF ReadTargets, At, table
<1>2. run[w].step # "idle" /\ run'[w] = memory(passed) BY <1>1 DEF TypeOK
<1>3. DOMAIN run[w] = {"step", "key", "job", "found"} /\ IsDispatch(run[w].key)
  BY <1>1, <1>2, RunTyped, KeyKinds, IdleParts DEF IsExecute, IsDeliver
<1>4. Reads(w)
  <2>1. /\ Keeps(w) /\ run'[w].step = "ready"
        /\ run'[w].found = Found(Targets(e) \ passed, run[w].job.depth)
    BY <1>2, <1>3, IdleParts DEF Keeps
  <2> QED BY <1>1, <1>3, <2>1 DEF Reads
<1> HIDE DEF memory
<1>5. RunStep BY <1>1, <1>4, RunPut
<1> QED BY <1>1, <1>5, RowsStay

LEMMA GoesQuiet == ASSUME TypeOK, NEW w \in Workers, NEW step \in {"ready", "through"}, Goes(w, step),
                          run[w].step # "idle", run[w].key[1] # "event.dispatch"
                   PROVE  RunStep
<1> DEFINE memory == [run[w] EXCEPT !.step = step]
<1>1. run' = [run EXCEPT ![w] = memory] BY DEF Goes
<1>2. run'[w] = memory BY <1>1 DEF TypeOK
<1>3. DOMAIN run[w] = {"step", "key", "job", "found"} /\ ~IsDispatch(run[w].key)
  BY RunTyped, IdleParts DEF IsDispatch
<1>4. Moves(w) BY <1>2, <1>3, IdleParts DEF Moves, Keeps
<1> HIDE DEF memory
<1> QED BY <1>1, <1>4, RunPut

LEMMA QuietActions ==
  ASSUME DispatchInv,
         \/ \E k \in DOMAIN rows : Cancel(k) \/ Retry(k) \/ Lapse(k)
         \/ Sweeps
         \/ \E w \in Workers : \/ Claims(w) \/ ReadTargets(w) \/ ReadRule(w)
                               \/ Post(w) \/ Report(w) \/ Lose(w)
  PROVE  DispatchInv'
<1>1. TypeOK /\ roots \in Nat /\ troubles \in Nat /\ missed \subseteq Keys
  BY DEF DispatchInv, TypeOK
<1>2. ASSUME NEW k \in DOMAIN rows, Cancel(k) \/ Retry(k) \/ Lapse(k) \/ Sweep(k)
      PROVE  DispatchInv'
  <2>1. RowStep BY <1>1, <1>2, CancelQuiet, RetryQuiet, LapseQuiet, SweepQuiet
  <2>2. UNCHANGED run BY <1>2 DEF Cancel, Retry, Lapse, Sweep
  <2>3. RunStep BY <1>1, <2>2, RunStays
  <2>4. roots' \in Nat /\ troubles' \in Nat /\ Quiet
    <3>1. UNCHANGED <<people, events, past>> /\ UNCHANGED roots /\ (UNCHANGED troubles \/ Trouble)
      BY <1>2 DEF Cancel, Retry, Lapse, Sweep
    <3> QED BY <1>1, <3>1 DEF Trouble, people, past, Quiet
  <2> QED BY <2>1, <2>3, <2>4, QuietKeeps
<1>3. ASSUME NEW w \in Workers, NEW k \in DOMAIN rows, Begin(w, k)
      PROVE  DispatchInv'
  <2>1. RowStep /\ RunStep BY <1>1, <1>3, BeginQuiet
  <2>2. roots' \in Nat /\ troubles' \in Nat /\ Quiet BY <1>1, <1>3 DEF Begin, people, past, Quiet
  <2> QED BY <2>1, <2>2, QuietKeeps
<1>4. ASSUME NEW w \in Workers, ReadTargets(w) \/ Report(w)
      PROVE  DispatchInv'
  <2>1. RowStep /\ RunStep BY <1>1, <1>4, ReadTargetsQuiet, ReportQuiet
  <2>2. /\ UNCHANGED roots /\ (UNCHANGED troubles \/ Trouble)
        /\ UNCHANGED <<people, events, steady, purged, done, again>>
        /\ missed' = missed \/ (ReadTargets(w) /\ \E p \in SUBSET Targets(Of(run[w].key)) : missed' = missed \cup p)
    BY <1>4 DEF ReadTargets, MayPass, Report, table, past
  <2>3. missed \subseteq missed' /\ missed' \subseteq Keys
    <3>1. ASSUME ReadTargets(w), NEW p \in SUBSET Targets(Of(run[w].key)) PROVE p \subseteq Keys
      <4>1. Of(run[w].key) \in DOMAIN events BY <1>1, <3>1, RunTyped, KeyKinds DEF ReadTargets, At
      <4> QED BY <4>1, KeysMade DEF Targets, ReadyRules, ReadyHooks
    <3> QED BY <1>1, <2>2, <3>1 DEF TypeOK
  <2>4. roots' \in Nat /\ troubles' \in Nat /\ Quiet
    <3>1. UNCHANGED <<rules, hooks, events, steady, purged, done, again>> BY <2>2 DEF people
    <3> QED BY <1>1, <2>2, <2>3, <3>1 DEF Trouble, Quiet
  <2> QED BY <2>1, <2>4, QuietKeeps
<1>5. ASSUME NEW w \in Workers, ReadRule(w) \/ Post(w) \/ Lose(w)
      PROVE  DispatchInv'
  <2>1. UNCHANGED rows BY <1>5 DEF ReadRule, Post, Lose, table
  <2>2. RowStep BY <1>1, <2>1, RowsStay
  <2>3. RunStep
    <3>1. CASE ReadRule(w)
      <4> DEFINE step == IF run[w].key \in DOMAIN rows /\ rows[run[w].key].acted THEN "through" ELSE "ready"
      <4>1. /\ Goes(w, step) /\ step \in {"ready", "through"}
            /\ run[w].step # "idle" /\ run[w].key[1] # "event.dispatch"
        BY <3>1 DEF ReadRule, At
      <4> HIDE DEF step
      <4> QED BY <1>1, <4>1, GoesQuiet
    <3>2. CASE Post(w)
      <4>1. Goes(w, "through") /\ run[w].step # "idle" /\ run[w].key[1] # "event.dispatch"
        BY <3>2 DEF Post, At
      <4> QED BY <1>1, <4>1, GoesQuiet
    <3>3. CASE Lose(w) BY <1>1, <3>3, RunPut DEF Lose
    <3> QED BY <1>5, <3>1, <3>2, <3>3
  <2>4. roots' \in Nat /\ troubles' \in Nat /\ Quiet
    BY <1>1, <1>5 DEF ReadRule, Post, Lose, Trouble, people, table, past, Quiet
  <2> QED BY <2>2, <2>3, <2>4, QuietKeeps
<1> QED BY <1>2, <1>3, <1>4, <1>5 DEF Sweeps, Claims

----------------
(* People change a rule or a webhook: who is due an event without a change is  *)
(* never the one changed.                                                     *)
Alters(t) ==
  /\ rules' \in [Rules -> Rule] /\ hooks' \in [Hooks -> Hook]
  /\ \A r \in Rules \ {t} : rules'[r] = rules[r]
  /\ \A h \in Hooks \ {t} : hooks'[h] = hooks[h]

LEMMA UnsteadyIs ==
  ASSUME TypeOK, NEW t, Unsteady(t)
  PROVE  /\ steady' \in Seq(SUBSET (Rules \cup Hooks)) /\ Len(steady') = Len(events)
         /\ \A e \in DOMAIN events : steady'[e] = steady[e] \ {t}
<1>1. /\ steady \in Seq(SUBSET (Rules \cup Hooks)) /\ Len(steady) = Len(events)
      /\ events \in Seq(Event)
  BY DEF TypeOK
<1>2. DOMAIN steady = 1 .. Len(steady) /\ DOMAIN events = 1 .. Len(events) /\ Len(events) \in Nat
  BY <1>1
<1>3. \A e \in 1 .. Len(steady) : steady[e] \subseteq Rules \cup Hooks BY <1>1
<1>4. steady' = [e \in 1 .. Len(steady) |-> steady[e] \ {t}] BY <1>2 DEF Unsteady
<1>5. steady' \in [1 .. Len(steady) -> SUBSET (Rules \cup Hooks)] BY <1>3, <1>4
<1>6. steady' \in Seq(SUBSET (Rules \cup Hooks)) /\ Len(steady') = Len(steady) BY <1>1, <1>2, <1>5
<1> QED BY <1>1, <1>2, <1>4, <1>6

LEMMA AltersKeeps ==
  ASSUME DispatchInv, NEW t, Alters(t), Unsteady(t), roots' \in Nat, troubles' \in Nat,
         UNCHANGED <<events, rows, run, missed, purged, done, again>>
  PROVE  DispatchInv'
<1>0. TypeOK BY DEF DispatchInv
<1>1. Keys' = Keys BY KeysStay
<1>2. /\ steady' \in Seq(SUBSET (Rules \cup Hooks)) /\ Len(steady') = Len(events)
      /\ \A e \in DOMAIN events : steady'[e] = steady[e] \ {t}
  BY <1>0, UnsteadyIs
<1>3. TypeOK' BY <1>0, <1>1, <1>2 DEF TypeOK, Alters
<1>4. JobsFit' BY DEF DispatchInv, JobsFit, Fits, Waits
<1>5. DoneHasReceipt' BY DEF DispatchInv, DoneHasReceipt
<1>6. SteadyIsReady'
  <2> SUFFICES ASSUME NEW e \in DOMAIN events, NEW u \in steady[e], u # t
               PROVE  u \in ReadyRules(events[e])' \cup ReadyHooks(events[e])'
    BY <1>2 DEF SteadyIsReady
  <2>1. u \in ReadyRules(events[e]) \cup ReadyHooks(events[e]) BY DEF DispatchInv, SteadyIsReady
  <2> QED BY <2>1 DEF ReadyRules, ReadyHooks, Waits, Alters
<1>7. ASSUME NEW k \in Keys, NEW job, Present(k, job)
      PROVE  Present(k, job)'
  <2>1. Of(k) \in DOMAIN events BY KeyKinds
  <2> QED BY <1>2, <1>7, <2>1 DEF Present, Alters
<1>8. JobsArePresent'
  <2>1. \A k \in DOMAIN rows : k \in Keys /\ Present(k, rows[k])
    BY <1>0 DEF DispatchInv, JobsArePresent, TypeOK
  <2>2. \A w \in Workers : \A k \in DOMAIN run[w].found : k \in Keys /\ Present(k, run[w].found[k])
    BY <1>0, RunTyped, IdleParts DEF DispatchInv, JobsArePresent, TypeOK
  <2>3. \A k \in DOMAIN rows : Present(k, rows[k])' BY <1>7, <2>1 DEF Present
  <2>4. \A w \in Workers : \A k \in DOMAIN run[w].found : Present(k, run[w].found[k])'
    BY <1>7, <2>2 DEF Present
  <2> QED BY <2>3, <2>4 DEF JobsArePresent
<1>9. \A e \in DOMAIN events : \A u : u # t /\ Reached(e, u) => Reached(e, u)'
  BY DEF Reached, Alters
<1>10. DispatchersReach' BY <1>2, <1>9 DEF DispatchInv, DispatchersReach
<1>11. OncePerEvent' /\ CascadeBounded' BY DEF DispatchInv, OncePerEvent, CascadeBounded
<1>12. DispatchComplete' BY <1>2, <1>9 DEF DispatchInv, DispatchComplete
<1> QED BY <1>3, <1>4, <1>5, <1>6, <1>8, <1>10, <1>11, <1>12 DEF DispatchInv

LEMMA PeopleActions ==
  ASSUME DispatchInv, \/ \E r \in Rules : SaveRule(r) \/ Turn(r)
                      \/ \E h \in Hooks : SaveHook(h)
  PROVE  DispatchInv'
<1>1. TypeOK /\ roots \in Nat /\ troubles \in Nat BY DEF DispatchInv, TypeOK
<1>2. /\ rules \in [Rules -> Rule] /\ hooks \in [Hooks -> Hook]
      /\ \A r \in Rules : rules[r] \in Rule
      /\ \A h \in Hooks : hooks[h] \in Hook
  BY <1>1 DEF TypeOK
<1>3. ASSUME NEW r \in Rules, SaveRule(r) \/ Turn(r)
      PROVE  DispatchInv'
  <2>1. PICK rule \in Rule : rules' = [rules EXCEPT ![r] = rule]
    <3>1. CASE SaveRule(r)
      <4>1. PICK on \in BOOLEAN : rules' = [rules EXCEPT ![r].revision = @ + 1, ![r].enabled = on]
        BY <3>1 DEF SaveRule
      <4> DEFINE rule == [rules[r] EXCEPT !.revision = @ + 1, !.enabled = on]
      <4>2. rules' = [rules EXCEPT ![r] = rule] BY <4>1
      <4>3. \A was \in Rule, n \in Nat, b \in BOOLEAN :
              [was EXCEPT !.revision = n, !.enabled = b] \in Rule
        BY DEF Rule
      <4>4. rules[r] \in Rule /\ rules[r].revision + 1 \in Nat BY <1>2 DEF Rule
      <4>5. rule \in Rule BY <4>3, <4>4
      <4> HIDE DEF rule
      <4> QED BY <4>2, <4>5
    <3>2. CASE Turn(r)
      <4> DEFINE rule == [rules[r] EXCEPT !.fit = ~@]
      <4>1. rules' = [rules EXCEPT ![r] = rule] BY <3>2 DEF Turn
      <4>2. rule \in Rule BY <1>2 DEF Rule
      <4> HIDE DEF rule
      <4> QED BY <4>1, <4>2
    <3> QED BY <1>3, <3>1, <3>2
  <2>2. /\ Unsteady(r) /\ UNCHANGED <<hooks, events, rows, run, roots, missed, purged, done, again>>
        /\ Trouble
    BY <1>3 DEF SaveRule, Turn, table
  <2>3. Alters(r) BY <1>2, <2>1, <2>2 DEF Alters
  <2> QED BY <1>1, <2>2, <2>3, AltersKeeps DEF Trouble
<1>4. ASSUME NEW h \in Hooks, SaveHook(h)
      PROVE  DispatchInv'
  <2>1. PICK hook \in Hook : hooks' = [hooks EXCEPT ![h] = hook]
    <3>1. CASE hooks' = [hooks EXCEPT ![h].enabled = ~@]
      <4> DEFINE hook == [hooks[h] EXCEPT !.enabled = ~@]
      <4>1. hooks' = [hooks EXCEPT ![h] = hook] BY <3>1
      <4>2. hook \in Hook BY <1>2 DEF Hook
      <4> HIDE DEF hook
      <4> QED BY <4>1, <4>2
    <3>2. CASE \E type \in Kinds :
                 /\ hooks[h].events # {type}
                 /\ hooks' = [hooks EXCEPT ![h].events = (@ \ {type}) \cup ({type} \ @)]
      <4>1. PICK type \in Kinds :
              /\ hooks[h].events # {type}
              /\ hooks' = [hooks EXCEPT ![h].events = (@ \ {type}) \cup ({type} \ @)]
        BY <3>2
      <4> DEFINE types == (hooks[h].events \ {type}) \cup ({type} \ hooks[h].events)
                 hook == [hooks[h] EXCEPT !.events = types]
      <4>2. hooks' = [hooks EXCEPT ![h] = hook] BY <4>1
      <4>3. hooks[h].events \subseteq Kinds /\ hooks[h].events # {} BY <1>2 DEF Hook
      <4>4. types \subseteq Kinds /\ types # {} BY <4>1, <4>3
      <4> HIDE DEF types
      <4>5. hook \in Hook BY <1>2, <4>4 DEF Hook
      <4> HIDE DEF hook
      <4> QED BY <4>2, <4>5
    <3> QED BY <1>4, <3>1, <3>2 DEF SaveHook
  <2>2. /\ Unsteady(h) /\ UNCHANGED <<rules, events, rows, run, roots, missed, purged, done, again>>
        /\ Trouble
    BY <1>4 DEF SaveHook, table
  <2>3. Alters(h) BY <1>2, <2>1, <2>2 DEF Alters
  <2> QED BY <1>1, <2>2, <2>3, AltersKeeps DEF Trouble
<1> QED BY <1>3, <1>4

----------------
(* Retention: whoever was reached by the row was reached.                     *)
LEMMA PurgeKeeps == ASSUME DispatchInv, NEW k \in DOMAIN rows, Purge(k) PROVE DispatchInv'
<1>0. TypeOK BY DEF DispatchInv
<1>1. /\ DOMAIN rows' = DOMAIN rows \ {k} /\ \A j \in DOMAIN rows' : rows'[j] = rows[j]
      /\ purged' = purged \cup {k} /\ troubles' \in Nat
      /\ UNCHANGED <<rules, hooks, events, run, roots, steady, missed, done, again>>
  BY <1>0 DEF Purge, Trouble, people, TypeOK
<1>2. Keys' = Keys BY <1>1, KeysStay
<1>3. TypeOK' BY <1>0, <1>1, <1>2 DEF TypeOK
<1>4. JobsFit' /\ JobsArePresent'
  BY <1>1 DEF DispatchInv, JobsFit, JobsArePresent, Fits, Present, Waits
<1>5. DoneHasReceipt' BY <1>1 DEF DispatchInv, DoneHasReceipt
<1>6. SteadyIsReady' BY <1>1 DEF DispatchInv, SteadyIsReady, ReadyRules, ReadyHooks, Waits
<1>7. \A e, t : Reached(e, t) => Reached(e, t)' BY <1>1 DEF Reached
<1>8. DispatchersReach' /\ DispatchComplete'
  BY <1>1, <1>7 DEF DispatchInv, DispatchersReach, DispatchComplete
<1>9. OncePerEvent' /\ CascadeBounded' BY <1>1 DEF DispatchInv, OncePerEvent, CascadeBounded
<1> QED BY <1>3, <1>4, <1>5, <1>6, <1>8, <1>9 DEF DispatchInv

----------------
(* Steps that record an event or insert jobs: the log and the table only grow, *)
(* and what is new fits.                                                      *)
LogGrows ==
  /\ events' \in Seq(Event) /\ steady' \in Seq(SUBSET (Rules \cup Hooks))
  /\ Len(steady') = Len(events') /\ DOMAIN events \subseteq DOMAIN events'
  /\ \A e \in DOMAIN events : events'[e] = events[e] /\ steady'[e] = steady[e]
  /\ \A e \in DOMAIN events' \ DOMAIN events :
       steady'[e] \subseteq ReadyRules(events'[e]) \cup ReadyHooks(events'[e])

TableGrows ==
  /\ DOMAIN rows \subseteq DOMAIN rows'
  /\ \A k \in DOMAIN rows :
       /\ rows'[k] \in Row /\ rows'[k].stage = rows[k].stage
       /\ rows'[k].depth = rows[k].depth /\ rows'[k].revision = rows[k].revision
       /\ rows[k].acted => rows'[k].acted
  /\ \A k \in DOMAIN rows' \ DOMAIN rows :
       k \in Keys' /\ rows'[k] \in Fresh /\ Fits(k, rows[k])' /\ Present(k, rows[k])'

Arrives(w) == /\ Keeps(w) /\ run'[w].step = "through"
              /\ run'[w].found = run[w].found \/ run'[w].found = <<>>
              /\ \A e \in DOMAIN events : run[w].key = Dispatch(e) =>
                   \A t \in steady[e] : Reached(e, t)'
RunArrives == DOMAIN run' = Workers /\ \A w \in Workers : run'[w] = run[w] \/ Arrives(w)

LEMMA GrowthKeeps ==
  ASSUME DispatchInv, LogGrows, TableGrows, RunArrives, roots' \in Nat, troubles' \in Nat,
         UNCHANGED <<rules, hooks, missed, purged>>,
         done \subseteq done', done' \subseteq Keys', again' \subseteq done',
         \A k \in done' \ done : k \in DOMAIN rows /\ rows'[k].acted,
         OncePerEvent', CascadeBounded'
  PROVE  DispatchInv'
<1>0. TypeOK BY DEF DispatchInv
<1>1. Keys \subseteq Keys' BY KeysStay DEF LogGrows
<1>2. \A k \in DOMAIN rows : k \in Keys BY <1>0 DEF TypeOK
<1>3. ASSUME NEW w \in Workers, run[w].step # "idle"
      PROVE  /\ run[w].key \in Keys /\ run[w].job \in Row /\ Fits(run[w].key, run[w].job)
             /\ DOMAIN run[w].found \subseteq Keys
             /\ \A k \in DOMAIN run[w].found :
                  /\ run[w].found[k] \in Fresh /\ Fits(k, run[w].found[k]) /\ Present(k, run[w].found[k])
  BY <1>0, <1>3, RunTyped DEF DispatchInv, JobsFit, JobsArePresent
<1>4. ASSUME NEW w \in Workers, run'[w] # Idle
      PROVE  /\ DOMAIN run'[w] = DOMAIN Idle /\ run'[w].step \in {"begun", "ready", "through"}
             /\ run[w].step # "idle" /\ run'[w].key = run[w].key /\ run'[w].job = run[w].job
             /\ DOMAIN run'[w].found \subseteq DOMAIN run[w].found
             /\ \A k \in DOMAIN run'[w].found : run'[w].found[k] = run[w].found[k]
  <2>1. CASE run'[w] = run[w] BY <1>0, <1>4, <2>1, IdleParts DEF TypeOK
  <2>2. CASE Arrives(w) BY <2>2 DEF Arrives, Keeps
  <2> QED BY <2>1, <2>2 DEF RunArrives
<1>5. TypeOK'
  <2>1. DOMAIN rows' \subseteq Keys' /\ \A k \in DOMAIN rows' : rows'[k] \in Row
    BY <1>1, <1>2 DEF TableGrows, Fresh
  <2>2. \A w \in Workers :
          \/ run'[w] = Idle
          \/ /\ DOMAIN run'[w] = DOMAIN Idle
             /\ run'[w].step \in {"begun", "ready", "through"} /\ run'[w].key \in Keys'
             /\ run'[w].job \in Row
             /\ DOMAIN run'[w].found \subseteq Keys'
             /\ \A k \in DOMAIN run'[w].found : run'[w].found[k] \in Fresh
    BY <1>1, <1>3, <1>4
  <2>3. missed \subseteq Keys' /\ purged \subseteq Keys' BY <1>0, <1>1 DEF TypeOK
  <2>4. rules' \in [Rules -> Rule] /\ hooks' \in [Hooks -> Hook] BY <1>0 DEF TypeOK
  <2> QED BY <2>1, <2>2, <2>3, <2>4 DEF TypeOK, LogGrows, RunArrives
<1>6. ASSUME NEW k \in Keys, NEW job
      PROVE  (Fits(k, job) => Fits(k, job)') /\ (Present(k, job) => Present(k, job)')
  <2>1. Of(k) \in DOMAIN events BY KeyKinds
  <2> QED BY <2>1 DEF Fits, Present, Waits, LogGrows
<1>7. ASSUME NEW k \in DOMAIN rows'
      PROVE  Fits(k, rows[k])' /\ Present(k, rows[k])'
  <2>1. CASE k \in DOMAIN rows
    <3>1. Fits(k, rows[k]) /\ Present(k, rows[k]) BY <2>1 DEF DispatchInv, JobsFit, JobsArePresent
    <3>2. Fits(k, rows'[k]) /\ Present(k, rows'[k]) BY <2>1, <3>1 DEF Fits, Present, TableGrows
    <3> QED BY <1>2, <1>6, <2>1, <3>2 DEF Fits, Present, Waits
  <2>2. CASE k \notin DOMAIN rows BY <2>2 DEF TableGrows
  <2> QED BY <2>1, <2>2
<1>8. JobsFit'
  <2>1. ASSUME NEW w \in Workers, run'[w].step # "idle"
        PROVE  /\ Fits(run[w].key, run[w].job)'
               /\ \A k \in DOMAIN run'[w].found : Fits(k, run[w].found[k])'
    <3>1. run'[w] # Idle BY <2>1, IdleParts
    <3>2. /\ run'[w].key \in Keys /\ Fits(run'[w].key, run'[w].job)
          /\ \A k \in DOMAIN run'[w].found : k \in Keys /\ Fits(k, run'[w].found[k])
      BY <3>1, <1>3, <1>4
    <3> QED BY <1>6, <3>2 DEF Fits, Waits
  <2> QED BY <1>7, <2>1 DEF JobsFit
<1>9. JobsArePresent'
  <2>1. ASSUME NEW w \in Workers, NEW k \in DOMAIN run'[w].found
        PROVE  Present(k, run[w].found[k])'
    <3>1. run'[w] # Idle BY <2>1, IdleParts
    <3>2. k \in Keys /\ Present(k, run'[w].found[k]) BY <2>1, <3>1, <1>3, <1>4
    <3> QED BY <1>6, <3>2 DEF Present
  <2> QED BY <1>7, <2>1 DEF JobsArePresent
<1>10. DoneHasReceipt' BY DEF DispatchInv, DoneHasReceipt, TableGrows
<1>11. SteadyIsReady'
  <2>1. ASSUME NEW e \in DOMAIN events
        PROVE  steady'[e] \subseteq ReadyRules(events'[e]) \cup ReadyHooks(events'[e])
    BY DEF LogGrows, DispatchInv, SteadyIsReady
  <2>2. \A e \in DOMAIN events' :
          steady'[e] \subseteq ReadyRules(events'[e]) \cup ReadyHooks(events'[e])
    BY <2>1 DEF LogGrows
  <2> QED BY <2>2 DEF SteadyIsReady, ReadyRules, ReadyHooks, Waits
<1>12. \A e, t : Reached(e, t) => Reached(e, t)' BY DEF Reached, TableGrows
<1>13. DispatchersReach'
  <2> SUFFICES ASSUME NEW w \in Workers, NEW e \in DOMAIN events', run'[w].key = Dispatch(e),
                      run'[w] # Idle, NEW t \in steady'[e]
               PROVE  /\ run'[w].step = "ready" =>
                           {Execute(e, t), Deliver(e, t)} \cap (DOMAIN run'[w].found \cup missed') # {}
                      /\ run'[w].step = "through" => Reached(e, t)'
    BY IdleParts DEF DispatchersReach
  <2>1. run[w].key = Dispatch(e) /\ e \in DOMAIN events BY <1>3, <1>4, KeyKinds, DispatchIs
  <2>2. t \in steady[e] BY <2>1 DEF LogGrows
  <2>3. CASE run'[w] = run[w] BY <1>12, <2>1, <2>2, <2>3 DEF DispatchInv, DispatchersReach
  <2>4. CASE Arrives(w) BY <2>1, <2>2, <2>4 DEF Arrives
  <2> QED BY <2>3, <2>4 DEF RunArrives
<1>14. DispatchComplete'
  <2> SUFFICES ASSUME NEW e \in DOMAIN events', Dispatch(e) \in DOMAIN rows',
                      rows'[Dispatch(e)].stage = "succeeded", NEW t \in steady'[e]
               PROVE  Reached(e, t)'
    BY DEF DispatchComplete
  <2>1. Dispatch(e) \in DOMAIN rows BY DEF TableGrows, Fresh
  <2>2. e \in DOMAIN events BY <1>2, <2>1, KeyKinds, DispatchIs
  <2>3. rows[Dispatch(e)].stage = "succeeded" /\ t \in steady[e]
    BY <2>1, <2>2 DEF TableGrows, LogGrows
  <2> QED BY <1>12, <2>1, <2>2, <2>3 DEF DispatchInv, DispatchComplete
<1> QED BY <1>5, <1>8, <1>9, <1>10, <1>11, <1>13, <1>14 DEF DispatchInv

LEMMA RecordIs ==
  ASSUME DispatchInv, NEW event \in Event, Record(event), UNCHANGED <<rules, hooks>>
  PROVE  /\ LogGrows
         /\ \A e \in DOMAIN events' \ DOMAIN events :
              e = Len(events) + 1 /\ events'[e] = event /\ event.depth <= MaxDepth
         /\ event.depth <= MaxDepth =>
              Len(events) + 1 \in DOMAIN events' \ DOMAIN events
<1>1. /\ events \in Seq(Event) /\ steady \in Seq(SUBSET (Rules \cup Hooks))
      /\ Len(steady) = Len(events)
  BY DEF DispatchInv, TypeOK
<1>2. event.depth \in Nat /\ Len(events) \in Nat BY <1>1 DEF Event
<1>3. CASE event.depth > MaxDepth
  <2>1. UNCHANGED <<events, steady>> BY <1>3 DEF Record
  <2>2. ~(event.depth <= MaxDepth) BY <1>2, <1>3, LimitsAssumption
  <2> QED BY <1>1, <2>1, <2>2 DEF LogGrows
<1>4. CASE event.depth <= MaxDepth
  <2> DEFINE due == ReadyRules(event) \cup ReadyHooks(event)
  <2>1. events' = Append(events, event) /\ steady' = Append(steady, due)
    BY <1>2, <1>4, LimitsAssumption DEF Record
  <2>2. due \in SUBSET (Rules \cup Hooks) BY DEF ReadyRules, ReadyHooks
  <2>3. due = ReadyRules(event)' \cup ReadyHooks(event)' BY DEF ReadyRules, ReadyHooks, Waits
  <2> HIDE DEF due
  <2>4. /\ events' \in Seq(Event) /\ Len(events') = Len(events) + 1
        /\ events'[Len(events) + 1] = event
        /\ \A e \in 1 .. Len(events) : events'[e] = events[e]
    BY <1>1, <2>1
  <2>5. /\ steady' \in Seq(SUBSET (Rules \cup Hooks)) /\ Len(steady') = Len(steady) + 1
        /\ steady'[Len(events) + 1] = due
        /\ \A e \in 1 .. Len(events) : steady'[e] = steady[e]
    BY <1>1, <2>1, <2>2
  <2>6. /\ DOMAIN events = 1 .. Len(events) /\ DOMAIN events' = 1 .. Len(events) + 1
        /\ Len(events) + 1 \notin DOMAIN events
        /\ \A e \in DOMAIN events' \ DOMAIN events : e = Len(events) + 1
    BY <1>1, <1>2, <2>4
  <2>7. \A e \in DOMAIN events' \ DOMAIN events :
          steady'[e] \subseteq ReadyRules(events[e])' \cup ReadyHooks(events[e])'
    BY <2>3, <2>4, <2>5, <2>6 DEF ReadyRules, ReadyHooks, Waits
  <2>8. \A e \in DOMAIN events' \ DOMAIN events :
          steady'[e] \subseteq ReadyRules(events'[e]) \cup ReadyHooks(events'[e])
    BY <2>7 DEF ReadyRules, ReadyHooks, Waits
  <2>9. LogGrows BY <1>1, <1>2, <2>4, <2>5, <2>6, <2>8 DEF LogGrows
  <2> QED BY <1>2, <1>4, <2>4, <2>6, <2>9
<1> QED BY <1>2, <1>3, <1>4, LimitsAssumption

\* The job of the dispatch is new with its event.
LEMMA DispatchOfIs ==
  ASSUME DispatchInv, NEW event \in Event, Record(event), UNCHANGED <<rules, hooks>>,
         NEW k \in DOMAIN DispatchOf(event), NEW job, job = DispatchOf(event)[k]
  PROVE  /\ k \in Keys' /\ k \notin Keys /\ job \in Fresh
         /\ Fits(k, job)' /\ Present(k, job)'
<1> DEFINE e == Len(events) + 1  row == [New EXCEPT !.depth = event.depth]
<1>1. event.depth \in Nat BY DEF Event
<1>2. /\ event.depth <= MaxDepth /\ DispatchOf(event) = Single(Dispatch(e), row)
  BY <1>1, LimitsAssumption DEF DispatchOf
<1>3. k = Dispatch(e) /\ job = row BY <1>2 DEF Single
<1>4. e \in DOMAIN events' /\ e \notin DOMAIN events /\ events'[e] = event BY <1>2, RecordIs
<1>5. row \in Row /\ row.stage = "open" /\ row.depth = event.depth BY <1>1, NewRow DEF New
<1> HIDE DEF e, row
<1>6. Of(k) = e /\ For(k) = "dispatch" BY <1>3, KeyParts
<1>7. k \in Keys' /\ k \notin Keys
  <2>1. k \in Keys' BY <1>3, <1>4 DEF Keys
  <2> QED BY <1>4, <1>6, <2>1, KeyKinds
<1>8. For(k) \notin Rules BY <1>6, NobodyAssumption
<1> QED BY <1>3, <1>4, <1>5, <1>6, <1>7, <1>8 DEF Fits, Present, Fresh

LEMMA HappensKeeps ==
  ASSUME DispatchInv, Change \/ \E r \in Rules : Fire(r)
  PROVE  DispatchInv'
<1>0. TypeOK BY DEF DispatchInv
<1>1. PICK event \in Event : event.depth = 0 /\ event.cause = 0 /\ Happens(event)
  <2>1. \A type \in Kinds, subject \in Rules \cup {NoRule} :
          Root(type, subject) \in Event /\ Root(type, subject).depth = 0 /\ Root(type, subject).cause = 0
    BY DEF Root, Event
  <2>2. CASE Change BY <2>1, <2>2 DEF Change
  <2>3. CASE \E r \in Rules : Fire(r) BY <2>1, <2>3, TriggerAssumption DEF Fire
  <2> QED BY <2>2, <2>3
<1>2. /\ Record(event) /\ rows' = Beside(rows, DispatchOf(event)) /\ roots' \in Nat /\ troubles' \in Nat
      /\ UNCHANGED <<rules, hooks, run, missed, purged, done, again>>
  BY <1>0, <1>1 DEF Happens, people, TypeOK
<1>3. /\ LogGrows
      /\ \A e \in DOMAIN events' \ DOMAIN events :
           e = Len(events) + 1 /\ events'[e] = event /\ event.depth <= MaxDepth
  BY <1>2, RecordIs
<1>4. TableGrows
  <2>1. ASSUME NEW k \in DOMAIN rows' \ DOMAIN rows
        PROVE  k \in Keys' /\ rows'[k] \in Fresh /\ Fits(k, rows[k])' /\ Present(k, rows[k])'
    <3>1. k \in DOMAIN DispatchOf(event) /\ rows'[k] = DispatchOf(event)[k] BY <1>2 DEF Beside
    <3>2. PICK job : job = DispatchOf(event)[k]
      OBVIOUS
    <3>3. k \in Keys' /\ job \in Fresh /\ Fits(k, job)' /\ Present(k, job)'
      BY <1>2, <3>1, <3>2, DispatchOfIs
    <3> QED BY <3>1, <3>2, <3>3 DEF Fits, Present
  <2>2. DOMAIN rows \subseteq DOMAIN rows' /\ \A k \in DOMAIN rows : rows'[k] = rows[k]
    BY <1>2 DEF Beside
  <2>3. \A k \in DOMAIN rows : rows[k] \in Row BY <1>0 DEF TypeOK
  <2> QED BY <2>1, <2>2, <2>3 DEF TableGrows
<1>5. RunArrives BY <1>0, <1>2 DEF RunArrives, TypeOK
<1>6. done' \subseteq Keys' /\ again' \subseteq done' /\ done' = done
  <2>1. done \subseteq Keys /\ again \subseteq done BY <1>0 DEF TypeOK
  <2>2. Keys \subseteq Keys' BY <1>3, KeysStay DEF LogGrows
  <2> QED BY <1>2, <2>1, <2>2
<1>7. OncePerEvent' BY <1>2 DEF DispatchInv, OncePerEvent
<1>8. CascadeBounded'
  <2>1. ASSUME NEW e \in DOMAIN events'
        PROVE  /\ events'[e].depth <= MaxDepth
               /\ events'[e].cause # 0 =>
                    /\ events'[e].cause \in 1 .. e - 1
                    /\ events'[e].depth = events'[events'[e].cause].depth + 1
                    /\ events'[e].origin # events'[events'[e].cause].origin
    <3>1. CASE e \in DOMAIN events
      <4>1. /\ events[e].depth <= MaxDepth
            /\ events[e].cause # 0 =>
                 /\ events[e].cause \in 1 .. e - 1
                 /\ events[e].depth = events[events[e].cause].depth + 1
                 /\ events[e].origin # events[events[e].cause].origin
        BY <3>1 DEF DispatchInv, CascadeBounded
      <4>2. e \in 1 .. Len(events) /\ DOMAIN events = 1 .. Len(events) /\ Len(events) \in Nat
        BY <1>0, <3>1 DEF TypeOK
      <4>3. \A c \in 1 .. e - 1 : c \in DOMAIN events BY <4>2
      <4> QED BY <1>3, <3>1, <4>1, <4>3 DEF LogGrows
    <3>2. CASE e \notin DOMAIN events BY <1>1, <1>3, <3>2
    <3> QED BY <3>1, <3>2
  <2>2. ASSUME NEW k \in done
        PROVE  /\ For(k) # events'[Of(k)].origin
               /\ events'[Of(k)].type = Date => For(k) = events'[Of(k)].subject
    <3>1. Of(k) \in DOMAIN events BY <1>0, KeyKinds DEF TypeOK
    <3> QED BY <1>3, <3>1 DEF LogGrows, DispatchInv, CascadeBounded
  <2> QED BY <1>6, <2>1, <2>2 DEF CascadeBounded
<1> QED BY <1>2, <1>3, <1>4, <1>5, <1>6, <1>7, <1>8, GrowthKeeps

LEMMA CommitKeeps ==
  ASSUME DispatchInv, NEW w \in Workers, CommitTargets(w)
  PROVE  DispatchInv'
<1> DEFINE found == run[w].found
           memory == [run[w] EXCEPT !.step = "through", !.found = <<>>]
<1>0. TypeOK BY DEF DispatchInv
<1>1. /\ run[w].step = "ready" /\ rows' = Beside(rows, found) /\ run' = [run EXCEPT ![w] = memory]
      /\ UNCHANGED <<rules, hooks, events, steady, missed, purged, done, again, roots, troubles>>
  BY DEF CommitTargets, At, InsertTargets, Insert, people, past
<1>2. /\ DOMAIN run[w] = DOMAIN Idle /\ DOMAIN found \subseteq Keys
      /\ \A k \in DOMAIN found : found[k] \in Fresh /\ Fits(k, found[k]) /\ Present(k, found[k])
  BY <1>0, <1>1, RunTyped DEF DispatchInv, JobsFit, JobsArePresent
<1>3. Keys' = Keys BY <1>1, KeysStay
<1>4. LogGrows BY <1>0, <1>1 DEF LogGrows, TypeOK
<1>5. /\ DOMAIN rows' = DOMAIN rows \cup DOMAIN found
      /\ \A k \in DOMAIN rows : rows'[k] = rows[k]
      /\ \A k \in DOMAIN found : k \in DOMAIN rows \/ rows'[k] = found[k]
  BY <1>1 DEF Beside
<1>6. TableGrows
  <2>1. ASSUME NEW k \in DOMAIN rows' \ DOMAIN rows
        PROVE  k \in Keys' /\ rows'[k] \in Fresh /\ Fits(k, rows[k])' /\ Present(k, rows[k])'
    <3>1. k \in Keys /\ rows'[k] \in Fresh /\ Fits(k, rows'[k]) /\ Present(k, rows'[k])
      BY <1>2, <1>5
    <3> QED BY <1>1, <1>3, <3>1 DEF Fits, Present, Waits
  <2>2. \A k \in DOMAIN rows : rows[k] \in Row BY <1>0 DEF TypeOK
  <2> QED BY <1>5, <2>1, <2>2 DEF TableGrows
<1>7. RunArrives
  <2>1. ASSUME NEW e \in DOMAIN events, run[w].key = Dispatch(e), NEW t \in steady[e]
        PROVE  Reached(e, t)'
    <3>1. PICK k \in {Execute(e, t), Deliver(e, t)} : k \in DOMAIN found \/ k \in missed
      BY <1>1, <2>1 DEF DispatchInv, DispatchersReach
    <3>0. CASE k \in missed BY <1>1, <3>0, <3>1 DEF Reached
    <3>2. Of(k) = e /\ For(k) = t BY <3>1, KeyParts
    <3>3. CASE k \in DOMAIN found
     <4>1. k \in DOMAIN rows' /\ Present(k, rows'[k])
      BY <1>2, <1>5, <3>3 DEF DispatchInv, JobsArePresent
     <4>2. t \in Rules => rows'[k].revision = rules[t].revision BY <2>1, <3>2, <4>1 DEF Present
     <4> QED BY <1>1, <3>1, <4>1, <4>2 DEF Reached
    <3> QED BY <3>0, <3>1, <3>3
  <2>2. run'[w] = memory /\ \A v \in Workers \ {w} : run'[v] = run[v] BY <1>0, <1>1 DEF TypeOK
  <2>3. DOMAIN run[w] = {"step", "key", "job", "found"} /\ run[w].step # "idle"
    BY <1>1, <1>2, IdleParts
  <2>4. Keeps(w) /\ run'[w].step = "through" /\ run'[w].found = <<>>
    BY <2>2, <2>3, IdleParts DEF Keeps
  <2>5. Arrives(w) BY <2>1, <2>4 DEF Arrives
  <2>6. DOMAIN run' = Workers BY <1>0, <1>1 DEF TypeOK
  <2> QED BY <2>2, <2>5, <2>6 DEF RunArrives
<1> HIDE DEF found, memory
<1>8. done' = done /\ done' \subseteq Keys' /\ again' \subseteq done' /\ roots' \in Nat /\ troubles' \in Nat
  BY <1>0, <1>1, <1>3 DEF TypeOK
<1>9. OncePerEvent' /\ CascadeBounded' BY <1>1 DEF DispatchInv, OncePerEvent, CascadeBounded
<1> QED BY <1>1, <1>4, <1>6, <1>7, <1>8, <1>9, GrowthKeeps

----------------
(* A rule acts: the lease, the receipt and the limit decide.                  *)
LEMMA FollowIs ==
  ASSUME DispatchInv, NEW w \in Workers, run[w].step # "idle", IsExecute(run[w].key),
         Deed[For(run[w].key)] \in Kinds
  PROVE  /\ Follow(w) \in Event
         /\ Follow(w).cause = Of(run[w].key)
         /\ Follow(w).depth = events[Of(run[w].key)].depth + 1
         /\ Follow(w).origin # events[Of(run[w].key)].origin
<1> DEFINE k == run[w].key
<1>1. TypeOK /\ run[w].job \in Row /\ Of(k) \in DOMAIN events BY RunTyped, KeyKinds DEF DispatchInv
<1>2. Of(k) \in Nat BY <1>1 DEF TypeOK
<1>3. For(k) \in Rules /\ Fits(k, run[w].job) BY DEF IsExecute, DispatchInv, JobsFit
<1>4. /\ run[w].job.depth = events[Of(k)].depth /\ run[w].job.depth \in Nat
      /\ For(k) # events[Of(k)].origin
  BY <1>1, <1>3 DEF Fits, Waits, Row
<1> HIDE DEF k
<1>5. Follow(w) = [type |-> Deed[For(k)], depth |-> run[w].job.depth + 1, subject |-> NoRule,
                   origin |-> For(k), cause |-> Of(k)]
  BY DEF Follow, DepthAfter, k
<1>6. Follow(w) \in Event BY <1>2, <1>3, <1>4, <1>5 DEF Event, k
<1> QED BY <1>4, <1>5, <1>6 DEF k

LEMMA ActKeeps ==
  ASSUME DispatchInv, NEW w \in Workers, Act(w)
  PROVE  DispatchInv'
<1> DEFINE k == run[w].key
           acted == [rows EXCEPT ![k].acted = TRUE]
           memory == [run[w] EXCEPT !.step = "through"]
<1>0. TypeOK BY DEF DispatchInv
<1>1. /\ run[w].step = "ready" /\ k[1] = "automation.execute"
      /\ k \in DOMAIN rows /\ ~rows[k].acted /\ run' = [run EXCEPT ![w] = memory]
      /\ UNCHANGED <<rules, hooks, roots, troubles, missed, purged>>
      /\ done' = done \cup {k} /\ again' = IF k \in done THEN again \cup {k} ELSE again
  BY DEF Act, At, MayAct, Holds, Goes, people
<1>2. /\ run[w].step # "idle" /\ k \in Keys /\ DOMAIN run[w] = DOMAIN Idle /\ run[w].job \in Row
      /\ Fits(k, run[w].job)
  BY <1>0, <1>1, RunTyped DEF DispatchInv, JobsFit
<1>3. IsExecute(k) /\ Of(k) \in DOMAIN events /\ For(k) \in Rules
  BY <1>1, <1>2, KeyKinds DEF IsDispatch, IsExecute, IsDeliver
<1>4. /\ DOMAIN acted = DOMAIN rows
      /\ \A j \in DOMAIN rows :
           /\ acted[j] \in Row /\ acted[j].stage = rows[j].stage
           /\ acted[j].depth = rows[j].depth /\ acted[j].revision = rows[j].revision
           /\ rows[j].acted => acted[j].acted
      /\ acted[k].acted
  <2>1. \A j \in DOMAIN rows : rows[j] \in Row BY <1>0 DEF TypeOK
  <2> DEFINE row == [rows[k] EXCEPT !.acted = TRUE]
  <2>2. row \in Row BY <1>1, <2>1 DEF Row
  <2>3. /\ row.stage = rows[k].stage /\ row.depth = rows[k].depth
        /\ row.revision = rows[k].revision /\ row.acted = TRUE
    BY <1>1, <2>1 DEF Row
  <2>4. acted = [rows EXCEPT ![k] = row]
    OBVIOUS
  <2> HIDE DEF row, acted
  <2> QED BY <1>1, <2>1, <2>2, <2>3, <2>4
<1>5. PICK added :
        /\ rows' = Beside(acted, added) /\ LogGrows
        /\ \A j \in DOMAIN added : \A job : job = added[j] /\ j \notin DOMAIN rows =>
             j \in Keys' /\ job \in Fresh /\ Fits(j, job)' /\ Present(j, job)'
        /\ \A e \in DOMAIN events' \ DOMAIN events :
             /\ e = Len(events) + 1 /\ events'[e].depth <= MaxDepth
             /\ events'[e].cause = Of(k) /\ events'[e].depth = events[Of(k)].depth + 1
             /\ events'[e].origin # events[Of(k)].origin
  <2>1. CASE Deed[For(k)] \in Kinds /\ Record(Follow(w)) /\ rows' = Beside(acted, DispatchOf(Follow(w)))
    <3>1. /\ Follow(w) \in Event /\ Follow(w).cause = Of(k)
          /\ Follow(w).depth = events[Of(k)].depth + 1 /\ Follow(w).origin # events[Of(k)].origin
      BY <1>2, <1>3, <2>1, FollowIs
    <3>2. /\ LogGrows
          /\ \A e \in DOMAIN events' \ DOMAIN events :
               e = Len(events) + 1 /\ events'[e] = Follow(w) /\ Follow(w).depth <= MaxDepth
      BY <1>1, <2>1, <3>1, RecordIs
    <3>3. ASSUME NEW j \in DOMAIN DispatchOf(Follow(w)), NEW job, job = DispatchOf(Follow(w))[j]
          PROVE  j \in Keys' /\ job \in Fresh /\ Fits(j, job)' /\ Present(j, job)'
      BY <1>1, <2>1, <3>1, <3>3, DispatchOfIs
    <3> HIDE DEF k, acted
    <3> QED BY <2>1, <3>1, <3>2, <3>3
  <2>2. CASE Deed[For(k)] \in Hooks /\ rows' = Beside(acted, Chosen(w)) /\ UNCHANGED <<events, steady>>
    <3> DEFINE h == Deed[For(k)]  j == Deliver(Of(k), h)
               row == [New EXCEPT !.depth = run[w].job.depth, !.asked = TRUE]
    <3>1. Chosen(w) = Single(j, row) BY DEF Chosen
    <3>2. LogGrows BY <1>0, <2>2 DEF LogGrows, TypeOK
    <3>3. run[w].job.depth \in Nat /\ run[w].job.depth = events[Of(k)].depth BY <1>2 DEF Row, Fits
    <3>4. row \in Row /\ row.stage = "open" /\ row.depth = run[w].job.depth BY <3>3, NewRow DEF New
    <3>5. Of(j) = Of(k) /\ For(j) = h /\ h \in Hooks /\ h \notin Rules
      BY <2>2, KeyParts, NobodyAssumption
    <3>6. j \in Keys /\ Keys' = Keys BY <1>3, <2>2, <3>5, KeysMade, KeysStay
    <3> HIDE DEF row, j, h
    <3>7. ASSUME NEW i, i = j, NEW job, job = row
          PROVE  i \in Keys' /\ job \in Fresh /\ Fits(i, job)' /\ Present(i, job)'
      BY <2>2, <3>3, <3>4, <3>5, <3>6, <3>7 DEF Fits, Present, Fresh
    <3>8. \A i \in DOMAIN Chosen(w) : i = j /\ Chosen(w)[i] = row BY <3>1 DEF Single
    <3> HIDE DEF k, acted
    <3> QED BY <2>2, <3>2, <3>7, <3>8
  <2> QED BY <2>1, <2>2 DEF Act
<1>6. TableGrows
  <2>1. /\ DOMAIN rows' = DOMAIN acted \cup DOMAIN added
        /\ \A j \in DOMAIN acted : rows'[j] = acted[j]
        /\ \A j \in DOMAIN added : j \in DOMAIN acted \/ rows'[j] = added[j]
    BY <1>5 DEF Beside
  <2> HIDE DEF acted
  <2>2. ASSUME NEW j \in DOMAIN rows' \ DOMAIN rows
        PROVE  j \in Keys' /\ rows'[j] \in Fresh /\ Fits(j, rows[j])' /\ Present(j, rows[j])'
    <3>1. PICK job : job = rows'[j]
      OBVIOUS
    <3>2. j \in Keys' /\ job \in Fresh /\ Fits(j, job)' /\ Present(j, job)'
      BY <1>4, <1>5, <2>1, <3>1
    <3> QED BY <3>1, <3>2 DEF Fits, Present
  <2> QED BY <1>4, <2>1, <2>2 DEF TableGrows
<1>7. rows'[k].acted BY <1>1, <1>4, <1>5 DEF Beside
<1>8. RunArrives
  <2>1. run'[w] = memory /\ \A v \in Workers \ {w} : run'[v] = run[v] BY <1>0, <1>1 DEF TypeOK
  <2>2. DOMAIN run[w] = {"step", "key", "job", "found"} BY <1>2, IdleParts
  <2>3. Keeps(w) /\ run'[w].step = "through" /\ run'[w].found = run[w].found
    BY <1>2, <2>1, <2>2, IdleParts DEF Keeps
  <2>4. \A e : k # Dispatch(e) BY <1>1, DispatchIs DEF IsDispatch
  <2>5. Arrives(w) BY <2>3, <2>4 DEF Arrives
  <2>6. DOMAIN run' = Workers BY <1>0, <1>1 DEF TypeOK
  <2> QED BY <2>1, <2>5, <2>6 DEF RunArrives
<1> HIDE DEF acted, memory
<1>9. done \subseteq done' /\ done' \subseteq Keys' /\ again' \subseteq done'
  <2>1. Keys \subseteq Keys' BY <1>5, KeysStay DEF LogGrows
  <2> QED BY <1>0, <1>1, <1>2, <2>1 DEF TypeOK
<1>10. \A j \in done' \ done : j \in DOMAIN rows /\ rows'[j].acted BY <1>1, <1>7
<1>11. OncePerEvent'
  <2>1. k \in done => k \in purged BY <1>1 DEF DispatchInv, DoneHasReceipt
  <2> QED BY <1>1, <2>1 DEF DispatchInv, OncePerEvent
<1>12. CascadeBounded'
  <2>0. Len(events) \in Nat /\ DOMAIN events = 1 .. Len(events) BY <1>0 DEF TypeOK
  <2>1. ASSUME NEW e \in DOMAIN events'
        PROVE  /\ events'[e].depth <= MaxDepth
               /\ events'[e].cause # 0 =>
                    /\ events'[e].cause \in 1 .. e - 1
                    /\ events'[e].depth = events'[events'[e].cause].depth + 1
                    /\ events'[e].origin # events'[events'[e].cause].origin
    <3>1. CASE e \in DOMAIN events
      <4>1. /\ events[e].depth <= MaxDepth
            /\ events[e].cause # 0 =>
                 /\ events[e].cause \in 1 .. e - 1
                 /\ events[e].depth = events[events[e].cause].depth + 1
                 /\ events[e].origin # events[events[e].cause].origin
        BY <3>1 DEF DispatchInv, CascadeBounded
      <4>2. \A c \in 1 .. e - 1 : c \in DOMAIN events BY <2>0, <3>1
      <4> QED BY <1>5, <3>1, <4>1, <4>2 DEF LogGrows
    <3>2. CASE e \notin DOMAIN events
      <4>1. /\ e = Len(events) + 1 /\ events'[e].depth <= MaxDepth
            /\ events'[e].cause = Of(k) /\ events'[e].depth = events[Of(k)].depth + 1
            /\ events'[e].origin # events[Of(k)].origin
        BY <1>5, <3>2
      <4>2. Of(k) \in 1 .. e - 1 /\ events'[Of(k)] = events[Of(k)]
        BY <1>3, <1>5, <2>0, <4>1 DEF LogGrows
      <4> QED BY <4>1, <4>2
    <3> QED BY <3>1, <3>2
  <2>2. ASSUME NEW j \in done'
        PROVE  /\ For(j) # events'[Of(j)].origin
               /\ events'[Of(j)].type = Date => For(j) = events'[Of(j)].subject
    <3>1. Of(j) \in DOMAIN events BY <1>0, <1>1, <1>3, KeyKinds DEF TypeOK
    <3>2. events'[Of(j)] = events[Of(j)] BY <1>5, <3>1 DEF LogGrows
    <3>3. CASE j \in done BY <3>2, <3>3 DEF DispatchInv, CascadeBounded
    <3>4. CASE j = k BY <1>2, <1>3, <3>2, <3>4 DEF Fits, Waits
    <3> QED BY <1>1, <3>3, <3>4
  <2> QED BY <2>1, <2>2 DEF CascadeBounded
<1>13. roots' \in Nat /\ troubles' \in Nat BY <1>0, <1>1 DEF TypeOK
<1> QED BY <1>1, <1>5, <1>6, <1>8, <1>9, <1>10, <1>11, <1>12, <1>13, GrowthKeeps

----------------
(* The invariant.                                                             *)
LEMMA InitKeeps == Init => DispatchInv
<1> SUFFICES ASSUME Init PROVE DispatchInv
  OBVIOUS
<1>1. /\ events = <<>> /\ DOMAIN events = {} /\ rows = <<>> /\ DOMAIN rows = {}
      /\ \A w \in Workers : run[w] = Idle
  BY DEF Init
<1>2. TypeOK BY <1>1, HooksAssumption DEF Init, TypeOK, Rule, Hook
<1> QED BY <1>1, <1>2, IdleParts DEF Init, DispatchInv, JobsFit, DoneHasReceipt, SteadyIsReady,
              JobsArePresent, DispatchersReach, OncePerEvent, CascadeBounded, DispatchComplete

LEMMA StutterKeeps == ASSUME DispatchInv, UNCHANGED vars PROVE DispatchInv'
<1>1. TypeOK /\ roots \in Nat /\ troubles \in Nat /\ missed \subseteq Keys
  BY DEF DispatchInv, TypeOK
<1>2. UNCHANGED rows /\ UNCHANGED run /\ roots' \in Nat /\ troubles' \in Nat
      /\ Quiet
  BY <1>1 DEF vars, past, Quiet
<1> QED BY <1>1, <1>2, RowsStay, RunStays, QuietKeeps

LEMMA NextKeeps == ASSUME DispatchInv, [Next]_vars PROVE DispatchInv'
<1>1. CASE Change \/ \E r \in Rules : Fire(r) BY <1>1, HappensKeeps
<1>2. CASE (\E r \in Rules : SaveRule(r) \/ Turn(r)) \/ \E h \in Hooks : SaveHook(h)
  BY <1>2, PeopleActions
<1>3. CASE \E k \in DOMAIN rows : Purge(k) BY <1>3, PurgeKeeps
<1>4. CASE \E w \in Workers : CommitTargets(w) \/ Act(w) BY <1>4, CommitKeeps, ActKeeps
<1>5. CASE \/ \E k \in DOMAIN rows : Cancel(k) \/ Retry(k) \/ Lapse(k)
           \/ Sweeps
           \/ \E w \in Workers : \/ Claims(w) \/ ReadTargets(w) \/ ReadRule(w)
                                 \/ Post(w) \/ Report(w) \/ Lose(w)
  BY <1>5, QuietActions
<1>6. CASE UNCHANGED vars BY <1>6, StutterKeeps
<1> QED BY <1>1, <1>2, <1>3, <1>4, <1>5, <1>6 DEF Next, Works

\* The jobs of the queue fit the events and the rules they are of, receipts stay
\* as long as their rows, and dispatches have found, reached or, for an error of
\* the database, passed over whoever is due.
THEOREM DispatchInvariance == Spec => []DispatchInv
<1>1. DispatchInv /\ [Next]_vars => DispatchInv' BY NextKeeps
<1> QED BY InitKeeps, <1>1, PTL DEF Spec

\* For any rules, webhooks and workers: however often and late a dispatch and an
\* execution run, a rule acts twice on an event only if retention has removed the
\* row whose receipt said that it had (the unique key and automation_effects).
THEOREM ActsOncePerEvent == Spec => []OncePerEvent
<1>1. DispatchInv => OncePerEvent BY DEF DispatchInv
<1> QED BY DispatchInvariance, <1>1, PTL

\* For any limit and any rules that answer each other: every event that follows
\* from another lies one deeper and none beyond the limit, no rule answers its own
\* event, and a date is answered by the rule that set it (enqueueEvent's limit,
\* the origin that dispatchEvent compares).
THEOREM CascadesAreBounded == Spec => []CascadeBounded
<1>1. DispatchInv => CascadeBounded BY DEF DispatchInv
<1> QED BY DispatchInvariance, <1>1, PTL

\* For any rules and webhooks: when a dispatch has succeeded, everybody that has
\* been due the event ever since has a job for it, or had one before retention,
\* and a rule has one that carries its present revision; all but those for whom
\* a lookup failed with the database, whom dispatchEvent passes over without a
\* word (automation.go:194-198, 233-239).
THEOREM DispatchesAreComplete == Spec => []DispatchComplete
<1>1. DispatchInv => DispatchComplete BY DEF DispatchInv
<1> QED BY DispatchInvariance, <1>1, PTL

\* Everybody who is due an event and was not passed over for an error of the
\* database has a job for it, and nobody acts on it twice (dispatchEvent).
THEOREM EventsAreAnswered == Spec => []EventsAnswered
BY ActsOncePerEvent, DispatchesAreComplete, PTL DEF EventsAnswered
==============================================================================
