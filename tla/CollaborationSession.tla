------------------------ MODULE CollaborationSession ------------------------
(* Editors of one document and their sockets: the provider of the browser      *)
(* (web/src/collaboration/provider.ts) against collaborationSocket and          *)
(* collaborationStateSince of internal/server/collaboration.go, whose store is  *)
(* the line of states that SharedDocument promises. Every handler of a message  *)
(* is one action; messages of one connection keep their order and are lost      *)
(* with it.                                                                     *)
EXTENDS Integers, Sequences, FiniteSets

CONSTANTS
  Clients,    \* browser tabs, each with a Y.Doc of its own
  Root,       \* the place of a block that starts a document
  MaxClock,   \* bound: blocks that a client inserts
  MaxErased,  \* bound: deletions
  MaxEpoch,   \* bound: epochs
  MaxDrops,   \* bound: connections that break
  MaxTurns    \* bound: changes of the right to write

ASSUME BoundsAssumption == /\ {MaxClock, MaxEpoch} \subseteq Nat \ {0}
                           /\ {MaxErased, MaxDrops, MaxTurns} \subseteq Nat
                           /\ IsFiniteSet(Clients)
\* The place that starts a document is not a block.
ASSUME RootAssumption == Root \notin Clients \X (1 .. MaxClock)
----------------
(* Yjs, as far as it is used: a block has the clock of its author and the     *)
(* block it was put next to; deletions have no clock.                         *)
Id    == Clients \X (1 .. MaxClock)
Block == [id : Id, on : Id \cup {Root}]
State == [blocks : SUBSET Block, erased : SUBSET Id]
Empty == [blocks |-> {}, erased |-> {}]

Ids(s)         == {b.id : b \in s.blocks}
Merge(s, t)    == [blocks |-> s.blocks \cup t.blocks, erased |-> s.erased \cup t.erased]
Without(s, t)  == [blocks |-> s.blocks \ t.blocks, erased |-> s.erased \ t.erased]
Holds(s, t)    == t.blocks \subseteq s.blocks /\ t.erased \subseteq s.erased
\* Nothing waits for an earlier clock of its author or for its neighbour.
Complete(s) == /\ \A b \in s.blocks : /\ \A n \in 1 .. b.id[2] - 1 : <<b.id[1], n>> \in Ids(s)
                                      /\ b.on \in Ids(s) \cup {Root}
               /\ s.erased \subseteq Ids(s)
Starts(s)   == {b \in s.blocks : b.on = Root}
----------------
VARIABLES
  epoch,   \* the epoch of the document
  log,     \* the states committed in it
  rights,  \* who may write
  tab,     \* tab[c]: the provider
  socket,  \* socket[c]: its connection at the server
  up,      \* up[c]: messages on their way to the server
  down,    \* down[c]: messages on their way to the provider
  made,    \* history: made[c][n] is what c did in its revision n
  drops, turns

vars == <<epoch, log, rights, tab, socket, up, down, made, drops, turns>>

Latest == IF log = <<>> THEN Empty ELSE log[Len(log)]

Status == {"disconnected", "syncing", "connected", "conflict", "error"}
Stopped == {"conflict", "error"}

NewTab == [status      |-> "disconnected",
           doc         |-> Empty,   \* the Y.Doc
           epoch       |-> 0,       \* of the snapshot; 0 if there is none
           sequence    |-> 0,
           canWrite    |-> FALSE,
           canSend     |-> FALSE,
           initialized |-> FALSE,
           seeding     |-> FALSE,
           updates     |-> Empty,   \* not sent yet
           timer       |-> FALSE,   \* flushTimer
           revision    |-> 0,
           saved       |-> 0,
           request     |-> 0,
           inFlight    |-> {}]      \* pairs of a request and its revision
Closed == [open |-> FALSE, epoch |-> 0, sequence |-> 0, writable |-> FALSE]

Init == /\ epoch = 1
        /\ log = <<>>
        /\ rights \in SUBSET Clients
        /\ tab = [c \in Clients |-> NewTab]
        /\ socket = [c \in Clients |-> Closed]
        /\ up = [c \in Clients |-> <<>>]
        /\ down = [c \in Clients |-> <<>>]
        /\ made = [c \in Clients |-> <<>>]
        /\ drops = 0
        /\ turns = 0

Unsaved(t) == t.revision > t.saved \/ t.seeding
SaveState(t) == CASE t.status \in Stopped                             -> "recovery"
                  [] t.status \in {"disconnected", "syncing"}         -> "reconnecting"
                  [] t.status = "connected" /\ t.inFlight # {}        -> "committing"
                  [] t.status = "connected" /\ t.inFlight = {}
                       /\ Unsaved(t)                                  -> "local"
                  [] OTHER                                            -> "confirmed"
----------------
(* The server.                                                                *)

\* send: an answer carries the state in force and the right to write of the
\* moment; from is 0 unless the state is a delta.
Answer(c, type, id, from, state) ==
  [type |-> type, id |-> id, epoch |-> epoch', sequence |-> Len(log'), from |-> from,
   state |-> state, canWrite |-> c \in rights, committed |-> FALSE]
Send(c, message) == down' = [down EXCEPT ![c] = Append(@, message)]
Error(type, id)  == [type |-> type, id |-> id]
\* What the socket was told last. Only a hello and a poll note the right.
Follow(c, writable) ==
  socket' = [socket EXCEPT ![c] = [open |-> TRUE, epoch |-> epoch', sequence |-> Len(log'),
                                   writable |-> writable]]
Close(c) == socket' = [socket EXCEPT ![c] = Closed]

\* What an update or a seed does to the store.
StaleEpoch(m) == m.epoch # epoch                            \* mutant: any seed is merged
Stale(m) == m.epoch # epoch \/ (m.type = "seed" /\ log # <<>>)
\* An update that builds on what the server has: nothing in it waits.
WholeByNeighbour(m) == LET s == Merge(Latest, m.state)     \* mutant: clocks not compared
                       IN  \A b \in s.blocks : b.on \in Ids(s) \cup {Root}
Whole(m) == Complete(Merge(Latest, m.state))

CommitUnnoted(c, m) ==                                      \* mutant: lastSeq left behind
  /\ epoch' = epoch
  /\ log' = IF Holds(Latest, m.state) THEN log ELSE Append(log, Merge(Latest, m.state))
  /\ Send(c, [Answer(c, "ack", m.id, 0, Merge(Latest, m.state)) EXCEPT !.committed = TRUE])
  /\ UNCHANGED socket
Commit(c, m) == /\ epoch' = epoch
                /\ log' = IF Holds(Latest, m.state) THEN log ELSE Append(log, Merge(Latest, m.state))
                /\ Send(c, [Answer(c, "ack", m.id, 0, Merge(Latest, m.state)) EXCEPT !.committed = TRUE])
                /\ Follow(c, socket[c].writable)
\* The state has become so large that the epoch ends with it.
CommitLast(c, m) == /\ epoch < MaxEpoch
                    /\ ~ Holds(Latest, m.state)
                    /\ epoch' = epoch + 1
                    /\ log' = <<>>
                    /\ Send(c, [Answer(c, "reset", m.id, 0, Empty) EXCEPT !.committed = TRUE])
                    /\ Close(c)
Fail(c, code, m) == /\ Send(c, Error(code, m.id))
                    /\ UNCHANGED <<epoch, log, socket>>

Handle(c) ==
  /\ socket[c].open /\ up[c] # <<>>
  /\ LET m == up[c][1]
     IN  \/ /\ c \notin rights
            /\ Fail(c, "read_only", m)
         \/ /\ c \in rights /\ Stale(m)
            /\ UNCHANGED <<epoch, log>>
            /\ Send(c, Answer(c, "reset", m.id, 0, Latest))
            /\ Close(c)
         \/ /\ c \in rights /\ ~ Stale(m) /\ log = <<>> /\ m.type = "update"
            /\ Fail(c, "seed_required", m)
         \/ /\ c \in rights /\ ~ Stale(m) /\ (log = <<>> => m.type = "seed")
            /\ IF Whole(m)
               THEN Commit(c, m) \/ CommitLast(c, m)
               ELSE Fail(c, "missing_state", m)
  /\ up' = [up EXCEPT ![c] = Tail(@)]
  /\ UNCHANGED <<rights, tab, made, drops, turns>>

\* The durable catch-up, woken by a notification or by its timer.
Poll(c) ==
  LET s    == socket[c]
      same == s.epoch = epoch
  IN  /\ s.open
      /\ s.epoch # epoch \/ s.sequence # Len(log) \/ s.writable # (c \in rights)
      /\ UNCHANGED <<epoch, log>>
      /\ \/ Send(c, Answer(c, IF same THEN "sync" ELSE "reset", 0, 0, Latest))
         \/ /\ same /\ s.sequence > 0     \* the checkpoint is not later
            /\ Send(c, Answer(c, "sync", 0, s.sequence, Without(Latest, log[s.sequence])))
      /\ IF same THEN Follow(c, c \in rights) ELSE Close(c)
      /\ UNCHANGED <<rights, tab, up, made, drops, turns>>

\* A rewritten document, a compaction by hand, a restored backup.
Replace == /\ epoch < MaxEpoch
           /\ epoch' = epoch + 1
           /\ log' = <<>>
           /\ UNCHANGED <<rights, tab, socket, up, down, made, drops, turns>>

Turn(c) == /\ turns < MaxTurns
           /\ turns' = turns + 1
           /\ rights' = IF c \in rights THEN rights \ {c} ELSE rights \cup {c}
           /\ UNCHANGED <<epoch, log, tab, socket, up, down, made, drops>>
----------------
(* The provider.                                                              *)

\* sendUpdate on an open socket: the provider is left as t, with the request
\* in flight.
Transmit(c, t, type, state) ==
  /\ tab' = [tab EXCEPT ![c] = [t EXCEPT !.request = @ + 1,
                                         !.inFlight = @ \cup {<<t.request + 1, t.revision>>}]]
  /\ up' = [up EXCEPT ![c] = Append(@, [type |-> type, id |-> t.request + 1,
                                        epoch |-> t.epoch, state |-> state])]
Become(c, t) == tab' = [tab EXCEPT ![c] = t] /\ UNCHANGED up

\* The socket is gone; the Y.Doc and what is unsaved stay.
Hang(c) == /\ socket' = [socket EXCEPT ![c] = Closed]
           /\ down' = [down EXCEPT ![c] = <<>>]
           /\ up' = [up EXCEPT ![c] = <<>>]

\* The upgrade reads the state for the hello.
Connect(c) ==
  /\ tab[c].status = "disconnected"
  /\ tab' = [tab EXCEPT ![c].status = "syncing"]
  /\ UNCHANGED <<epoch, log>>
  /\ Send(c, Answer(c, "hello", 0, 0, Latest))
  /\ Follow(c, c \in rights)
  /\ UNCHANGED <<rights, up, made, drops, turns>>

Drop(c) ==
  /\ drops < MaxDrops
  /\ tab[c].status \in {"syncing", "connected"}
  /\ drops' = drops + 1
  /\ tab' = [tab EXCEPT ![c].status = "disconnected", ![c].canSend = FALSE]
  /\ Hang(c)
  /\ UNCHANGED <<epoch, log, rights, made, turns>>

\* The editor is editable while the provider is connected and may write; the
\* provider takes the change up in onDocumentUpdate.
Edit(c, change) ==
  LET t == tab[c]
  IN  /\ t.status = "connected" /\ t.canWrite
      /\ tab' = [tab EXCEPT ![c] = [t EXCEPT !.doc = Merge(@, change),
                                             !.updates = Merge(@, change),
                                             !.revision = @ + 1,
                                             !.timer = TRUE]]
      /\ made' = [made EXCEPT ![c] = Append(@, change)]
      /\ UNCHANGED <<epoch, log, rights, socket, up, down, drops, turns>>

NextIdFromZero(c) == <<c, Cardinality({b \in tab[c].doc.blocks : b.id[1] = c})>>   \* mutant
NextId(c) == <<c, 1 + Cardinality({b \in tab[c].doc.blocks : b.id[1] = c})>>
Insert(c) == /\ NextId(c)[2] <= MaxClock
             /\ \E b \in Ids(tab[c].doc) \ tab[c].doc.erased :
                  Edit(c, [blocks |-> {[id |-> NextId(c), on |-> b]}, erased |-> {}])
Erase(c)  == /\ Cardinality(tab[c].doc.erased) < MaxErased
             /\ \E b \in Ids(tab[c].doc) \ tab[c].doc.erased :
                  Edit(c, [blocks |-> {}, erased |-> {b}])

Flush(c) ==
  LET t == tab[c]
      quiet == [t EXCEPT !.timer = FALSE]
  IN  /\ t.timer
      /\ IF t.canSend /\ t.canWrite /\ t.updates # Empty
         THEN Transmit(c, [quiet EXCEPT !.updates = Empty], "update", t.updates)
         ELSE Become(c, quiet)
      /\ UNCHANGED <<epoch, log, rights, socket, down, made, drops, turns>>

\* receive.
Stop(c, status) == Become(c, [tab[c] EXCEPT !.status = status, !.canSend = FALSE])

Failed(c, m) == /\ IF m.type = "missing_state" /\ tab[c].canSend
                   THEN Transmit(c, tab[c], "update", tab[c].doc)
                   ELSE Stop(c, "error")
                /\ UNCHANGED made

AcknowledgedNow(t, m) ==                                    \* mutant: the revision of the answer
  [t EXCEPT !.saved = t.revision, !.inFlight = {f \in @ : f[1] # m.id}]
AcknowledgedKept(t, m) ==                                   \* mutant: the request stays in flight
  [t EXCEPT !.saved = IF \E f \in t.inFlight : f[1] = m.id /\ f[2] > @ THEN t.revision ELSE @]
Acknowledged(t, m) ==
  LET revisions == {f[2] : f \in {g \in t.inFlight : g[1] = m.id}}
  IN  [t EXCEPT !.saved = IF \E r \in revisions : r > @ THEN CHOOSE r \in revisions : TRUE ELSE @,
                !.inFlight = {f \in @ : f[1] # m.id}]

Reset(c, m) ==
  /\ Become(c, [(IF m.committed THEN Acknowledged(tab[c], m) ELSE tab[c])
                  EXCEPT !.status = "conflict", !.canSend = FALSE])
  /\ UNCHANGED made

Noted(t, m) == [t EXCEPT !.epoch = m.epoch, !.sequence = m.sequence, !.canWrite = m.canWrite]
SyncedUnlessOwn(t, m) ==                                    \* mutant: an ack is not applied
  LET u == [Noted(t, m) EXCEPT !.initialized = TRUE, !.canSend = m.canWrite, !.seeding = FALSE,
                               !.status = "connected"]
  IN  IF m.type = "ack" THEN Acknowledged(u, m) ELSE [u EXCEPT !.doc = Merge(@, m.state)]
Synced(t, m) ==
  LET u == [Noted(t, m) EXCEPT !.doc = Merge(@, m.state), !.initialized = TRUE,
                               !.canSend = m.canWrite, !.seeding = FALSE,
                               !.status = "connected"]
  IN  IF m.type = "ack" THEN Acknowledged(u, m) ELSE u

ResendsNever(c, m) == FALSE                                 \* mutant
Resends(c, m) == /\ m.type = "hello" /\ tab[c].initialized
                 /\ Unsaved(Synced(tab[c], m)) /\ m.canWrite
Sync(c, m) ==
  /\ m.sequence > 0
  /\ LET t == Synced(tab[c], m)
     IN  IF Resends(c, m)
         THEN Transmit(c, [t EXCEPT !.updates = Empty, !.inFlight = {}], "update", t.doc)
         ELSE Become(c, t)
  /\ UNCHANGED made

\* The seed event: the editor loads the Markdown, which changes nothing if the
\* Y.Doc shows it already, and asks the provider to seed.
Seed(c, m) ==
  /\ m.sequence = 0
  /\ LET t      == [Noted(tab[c], m) EXCEPT !.status = IF m.type = "hello" THEN "syncing" ELSE @]
         blocks == IF Starts(t.doc) = {} THEN {[id |-> NextId(c), on |-> Root]} ELSE {}
         loaded == [t EXCEPT !.doc.blocks = @ \cup blocks]
     IN  IF m.type = "hello" /\ m.canWrite
         THEN IF ~ t.initialized /\ ~ t.seeding
              THEN /\ Transmit(c, [loaded EXCEPT !.seeding = TRUE, !.revision = @ + 1],
                               "seed", loaded.doc)
                   /\ made' = [made EXCEPT ![c] = Append(@, loaded.doc)]
              ELSE Become(c, loaded) /\ UNCHANGED made
         ELSE Become(c, t) /\ UNCHANGED made

\* A delta that does not continue what the provider has makes it connect again
\* (DeltasContinue: no such delta is ever sent).
OutOfOrder(t, m) == "from" \in DOMAIN m /\ m.from # 0 /\
                    (~ t.initialized \/ t.epoch # m.epoch \/ t.sequence # m.from)

Receive(c) ==
  /\ down[c] # <<>> /\ tab[c].status \in {"syncing", "connected"}
  /\ LET m     == down[c][1]
         state == m.type \in {"hello", "sync", "ack", "reset"}
         reset == m.type = "reset" \/ tab[c].epoch \notin {0, m.epoch}
     IN  \/ /\ ~ state
            /\ Failed(c, m)
         \/ /\ state /\ ~ OutOfOrder(tab[c], m) /\ reset
            /\ Reset(c, m)
         \/ /\ state /\ ~ OutOfOrder(tab[c], m) /\ ~ reset
            /\ Sync(c, m) \/ Seed(c, m)
  /\ down' = [down EXCEPT ![c] = Tail(@)]
  /\ UNCHANGED <<epoch, log, rights, socket, drops, turns>>

\* The server notices that a provider that has stopped is gone.
Leave(c) == /\ tab[c].status \in Stopped /\ socket[c].open
            /\ Hang(c)
            /\ UNCHANGED <<epoch, log, rights, tab, made, drops, turns>>

Step(c) == \/ Handle(c) \/ Poll(c) \/ Connect(c) \/ Drop(c) \/ Flush(c) \/ Receive(c)
           \/ Insert(c) \/ Erase(c) \/ Turn(c) \/ Leave(c)
Next == Replace \/ \E c \in Clients : Step(c)

\* The retry timer, the socket loop with its catch-up timer, the message and
\* flush events of the browser.
Fairness == \A c \in Clients : /\ WF_vars(Connect(c)) /\ WF_vars(Handle(c)) /\ WF_vars(Poll(c))
                               /\ WF_vars(Receive(c)) /\ WF_vars(Flush(c))
Spec     == Init /\ [][Next]_vars
FairSpec == Spec /\ Fairness
----------------
Tab == [status : Status, doc : State, epoch : 0 .. MaxEpoch, sequence : Nat,
        canWrite : BOOLEAN, canSend : BOOLEAN, initialized : BOOLEAN, seeding : BOOLEAN,
        updates : State, timer : BOOLEAN, revision : Nat, saved : Nat, request : Nat,
        inFlight : SUBSET (Nat \X Nat)]
TypeOK == /\ epoch \in 1 .. MaxEpoch
          /\ log \in Seq(State)
          /\ rights \subseteq Clients
          /\ tab \in [Clients -> Tab]
          /\ \A c \in Clients : Len(made[c]) = tab[c].revision

\* What a provider shows contains what the server had committed by the sequence
\* it believes to be at; a delta is never applied to less than it continues.
SeenIsKept == \A c \in Clients :
                LET t == tab[c]
                IN  t.epoch = epoch /\ t.sequence > 0 => Holds(t.doc, log[t.sequence])

\* A delta continues exactly what the tab that takes it holds.
DeltasContinue ==
  \A c \in Clients : down[c] # <<>> /\ tab[c].status \in {"syncing", "connected"} =>
    ~ OutOfOrder(tab[c], down[c][1])

\* A committed state is closed: no operation in it waits for a missing one.
LatestComplete == Complete(Latest)

\* What tabs and server know of each other fits at every moment (provider.ts).
TabsAreCurrent == SeenIsKept /\ DeltasContinue /\ LatestComplete

\* The saved indicator: while a tab says so, everything done in it is committed.
Done(c) == \A n \in 1 .. tab[c].revision : Holds(Latest, made[c][n])
SavedIsCommitted ==
  \A c \in Clients : tab[c].epoch = epoch /\ SaveState(tab[c]) = "confirmed" => Done(c)

\* hasUnsavedChanges: the page is called saved, and is left without a warning,
\* only when everything done in it is committed.
UnsavedWarned ==
  \A c \in Clients : tab[c].epoch = epoch /\ tab[c].initialized /\ ~ Unsaved(tab[c]) => Done(c)

\* The document is never made of two seeds: whoever comes second is reset.
OneSeed == Cardinality(Starts(Latest)) <= 1
\* As long as no connection breaks.
SeedsSerialized == drops = 0 => OneSeed

\* As long as no connection breaks, a tab says that it waits for an answer only
\* if there is something to answer, on its way to the server or back.
CommittingWaits ==
  \A c \in Clients : drops = 0 /\ SaveState(tab[c]) = "committing" => up[c] # <<>> \/ down[c] # <<>>

\* While no connection breaks: one seed, and no tab that waits for nothing.
CalmIsOrderly == SeedsSerialized /\ CommittingWaits

\* What a tab does once it has been answered is in the end confirmed, unless the
\* tab asks for recovery or may no longer write, over every broken connection.
Settled(c)  == ~ Unsaved(tab[c]) \/ tab[c].status \in Stopped \/ c \notin rights
EditsSettle == \A c \in Clients : tab[c].saved > 0 /\ Unsaved(tab[c]) ~> Settled(c)
==============================================================================
