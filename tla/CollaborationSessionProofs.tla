---------------------- MODULE CollaborationSessionProofs -----------------------
(* Proofs about CollaborationSession: what a tab, its socket and the server     *)
(* know of each other fits at every moment, over broken connections, resets and *)
(* new epochs, and what a tab calls saved is committed. The last part is about  *)
(* behaviours in which no connection has been broken.                           *)
EXTENDS CollaborationSession, FiniteSetTheorems, FunctionTheorems, TLAPS

----------------
(* The rows.                                                                  *)

TabRow == [status : Status, doc : State, epoch : Nat, sequence : Nat,
           canWrite : BOOLEAN, canSend : BOOLEAN, initialized : BOOLEAN, seeding : BOOLEAN,
           updates : State, timer : BOOLEAN, revision : Nat, saved : Nat, request : Nat,
           inFlight : SUBSET (Nat \X Nat)]
SocketRow == [open : BOOLEAN, epoch : Nat, sequence : Nat, writable : BOOLEAN]
Upward    == [type : {"update", "seed"}, id : Nat, epoch : Nat, state : State]
StateType == {"hello", "sync", "ack", "reset"}
AnswerRow == [type : StateType, id : Nat, epoch : Nat, sequence : Nat, from : Nat, state : State,
              canWrite : BOOLEAN, committed : BOOLEAN]
ErrorRow  == [type : {"read_only", "seed_required", "missing_state"}, id : Nat]
Downward  == AnswerRow \cup ErrorRow
IsState(m) == m.type \in StateType
IsAck(m)   == IsState(m) /\ m.committed

\* A client c is seen as its parts: the epoch e and the log lg of the server, its
\* tab t, socket s, the queues u upwards and d downwards, and what it has made, h.
Final(lg) == IF lg = <<>> THEN Empty ELSE lg[Len(lg)]

Shaped(t, s, u, d, h) ==
  t \in TabRow /\ s \in SocketRow /\ u \in Seq(Upward) /\ d \in Seq(Downward) /\ h \in Seq(State)

----------------
(* What belongs together.                                                     *)

\* The tab by itself, and what it has made so far.
TabFits(e, t, h) ==
  /\ t.epoch <= e /\ Len(h) = t.revision /\ t.saved <= t.revision
  /\ t.canSend => t.status = "connected"
  /\ t.status = "connected" => t.initialized
  /\ t.initialized => t.epoch # 0 /\ Starts(t.doc) # {}
  /\ Starts(t.doc) = {} => t.doc.blocks = {}
  /\ t.epoch = 0 => t.revision = 0
  /\ \A f \in t.inFlight : f[1] <= t.request /\ f[2] <= t.revision
  /\ \A f, g \in t.inFlight : f[1] = g[1] => f = g
  /\ \A n \in 1 .. t.revision : Holds(t.doc, h[n])

\* Requests on their way and answers to them, in order.
Requested(t, u) ==
  \A i \in DOMAIN u : /\ u[i].epoch = t.epoch /\ u[i].epoch # 0 /\ u[i].id <= t.request
                      /\ \E f \in t.inFlight : f[1] = u[i].id
                      /\ u[i].type = "seed" => Starts(u[i].state) # {}
InTurn(u) == \A i, j \in DOMAIN u : i < j => u[i].id < u[j].id
Answered(t, u, d) ==
  \A i \in DOMAIN d : IsAck(d[i]) =>
    /\ d[i].id <= t.request
    /\ \A j \in DOMAIN u : d[i].id < u[j].id
    /\ \A j \in DOMAIN d : i < j /\ IsAck(d[j]) => d[i].id < d[j].id
HelloFirst(t, u, d) == \A i \in DOMAIN d : d[i].type = "hello" => i = 1 /\ u = <<>> /\ t.status = "syncing"
QueuesFit(t, u, d) == Requested(t, u) /\ InTurn(u) /\ Answered(t, u, d) /\ HelloFirst(t, u, d)

Unplugged(t, s, u, d) == t.status = "disconnected" => u = <<>> /\ d = <<>> /\ ~s.open

\* What an answer says is true of the log.
Truthful(e, lg, m) ==
  IsState(m) =>
    /\ m.epoch <= e /\ m.epoch # 0
    /\ m.type = "ack" => m.committed
    /\ m.from # 0 => m.type = "sync" /\ m.sequence > 0
    /\ m.type # "reset" /\ m.sequence > 0 /\ m.from = 0 => Starts(m.state) # {}
    /\ m.type # "reset" /\ m.sequence > 0 /\ m.epoch = e =>
         /\ m.sequence \in DOMAIN lg
         /\ m.from = 0 => Holds(m.state, lg[m.sequence])
         /\ m.from # 0 => m.from \in DOMAIN lg /\ Holds(Merge(lg[m.from], m.state), lg[m.sequence])

\* A tab that has taken the first i - 1 messages is in epoch a at sequence n.
Reached(t, d, i, a, n) ==
  /\ \A j \in DOMAIN d : j < i /\ IsState(d[j]) /\ (\A k \in DOMAIN d : j < k /\ k < i => ~IsState(d[k])) =>
       d[j].epoch = a /\ d[j].sequence = n
  /\ (\A k \in DOMAIN d : k < i => ~IsState(d[k])) =>
       t.epoch = a /\ t.sequence = n /\ (n # 0 => t.initialized)
Continues(t, s, d) ==
  t.status \in {"syncing", "connected"} =>
    /\ \A i \in DOMAIN d : IsState(d[i]) /\ d[i].from # 0 => Reached(t, d, i, d[i].epoch, d[i].from)
    /\ s.open => Reached(t, d, Len(d) + 1, s.epoch, s.sequence)

Seen(e, lg, t) == t.epoch = e /\ t.sequence > 0 => t.sequence \in DOMAIN lg /\ Holds(t.doc, lg[t.sequence])
Followed(e, lg, s) == s.open => s.epoch <= e /\ s.epoch # 0 /\ (s.epoch = e => s.sequence \in 0 .. Len(lg))

\* A request that nobody will answer keeps the tab from calling itself saved.
Orphaned(t, u, d) ==
  \E f \in t.inFlight : /\ \A i \in DOMAIN u : u[i].id # f[1]
                        /\ \A i \in DOMAIN d : IsAck(d[i]) => d[i].id # f[1]
\* Otherwise what was made is committed, on its way or still to be sent.
Arrives(lg, u, more, x) ==
  /\ \A b \in x.blocks : b \in Final(lg).blocks \/ b \in more.blocks \/ \E i \in DOMAIN u : b \in u[i].state.blocks
  /\ \A b \in x.erased : b \in Final(lg).erased \/ b \in more.erased \/ \E i \in DOMAIN u : b \in u[i].state.erased
Sent(t, n) == n <= t.saved \/ \E f \in t.inFlight : n <= f[2]
Accounted(lg, t, u, h) ==
  \A n \in 1 .. t.revision : /\ Sent(t, n) => Arrives(lg, u, Empty, h[n])
                             /\ Arrives(lg, u, t.updates, h[n])
Kept(e, lg, t, u, d, h) == t.epoch = e => Orphaned(t, u, d) \/ Accounted(lg, t, u, h)

ClientFits(e, lg, t, s, u, d, h) ==
  /\ Shaped(t, s, u, d, h) /\ TabFits(e, t, h) /\ QueuesFit(t, u, d) /\ Unplugged(t, s, u, d)
  /\ \A i \in DOMAIN d : Truthful(e, lg, d[i])
  /\ Continues(t, s, d) /\ Seen(e, lg, t) /\ Followed(e, lg, s) /\ Kept(e, lg, t, u, d, h)

LogFits(e, lg) ==
  /\ e \in 1 .. MaxEpoch /\ lg \in Seq(State)
  /\ \A i \in DOMAIN lg : Starts(lg[i]) # {}
  /\ Complete(Final(lg))

SessInv ==
  /\ LogFits(epoch, log) /\ rights \subseteq Clients
  /\ tab = [c \in Clients |-> tab[c]] /\ socket = [c \in Clients |-> socket[c]]
  /\ up = [c \in Clients |-> up[c]] /\ down = [c \in Clients |-> down[c]] /\ made = [c \in Clients |-> made[c]]
  /\ \A c \in Clients : ClientFits(epoch, log, tab[c], socket[c], up[c], down[c], made[c])
----------------
(* Queues.                                                                    *)

Longer(u, x, v) == /\ Len(v) = Len(u) + 1 /\ DOMAIN v = 1 .. Len(u) + 1 /\ DOMAIN u = 1 .. Len(u)
                   /\ Len(u) \in Nat /\ v[Len(u) + 1] = x
                   /\ \A i \in DOMAIN u : v[i] = u[i]
Shorter(u, v) == /\ Len(u) \in Nat \ {0} /\ DOMAIN u = 1 .. Len(u)
                 /\ Len(v) = Len(u) - 1 /\ DOMAIN v = 1 .. Len(u) - 1
                 /\ \A i \in DOMAIN v : v[i] = u[i + 1]

\* What a queue is after a message was put at its end.
LEMMA LongerOf == ASSUME NEW S, NEW u \in Seq(S), NEW x \in S
                  PROVE  Append(u, x) \in Seq(S) /\ Longer(u, x, Append(u, x))
BY DEF Longer

\* What a queue is after its first message was taken.
LEMMA ShorterOf == ASSUME NEW S, NEW u \in Seq(S), u # <<>>
                   PROVE  Tail(u) \in Seq(S) /\ Shorter(u, Tail(u)) /\ u[1] \in S /\ 1 \in DOMAIN u
BY DEF Shorter

\* States: what holds more holds what it held; a union of states holds both.
LEMMA StateFacts == ASSUME NEW x \in State, NEW y \in State
                    PROVE  /\ Merge(x, y) \in State /\ Without(x, y) \in State /\ Empty \in State
                           /\ Holds(x, x) /\ Holds(Merge(x, y), x) /\ Holds(Merge(x, y), y) /\ Holds(x, Empty)
                           /\ Starts(x) # {} => Starts(Merge(x, y)) # {}
                           /\ Starts(y) # {} => Starts(Merge(x, y)) # {}
                           /\ Holds(Merge(y, Without(x, y)), x)
BY DEF State, Merge, Without, Empty, Holds, Starts

LEMMA HoldsAll == ASSUME NEW x \in State, NEW y \in State, NEW z \in State, Holds(x, y), Holds(y, z)
                  PROVE  Holds(x, z)
BY DEF State, Holds

----------------
(* The log.                                                                   *)

\* What the server does to its log: it only adds to it, or ends the epoch.
LogGrows(e, lg, e2, lg2) ==
  \/ /\ e2 = e /\ DOMAIN lg \subseteq DOMAIN lg2 /\ Len(lg) <= Len(lg2)
     /\ \A i \in DOMAIN lg : lg2[i] = lg[i]
     /\ Holds(Final(lg2), Final(lg))
  \/ e2 > e

LEMMA FinalState == ASSUME NEW lg \in Seq(State) PROVE Final(lg) \in State
<1>1. Empty \in State BY DEF Empty, State
<1>2. CASE lg = <<>> BY <1>1, <1>2 DEF Final
<1>3. CASE lg # <<>>
  <2>1. Len(lg) \in DOMAIN lg BY <1>3
  <2> QED BY <1>3, <2>1 DEF Final
<1> QED BY <1>2, <1>3

\* What is in a state that grows stays in it.
LEMMA GrownArrives ==
  ASSUME NEW lg, NEW lg2, NEW u, NEW more, NEW x, Holds(Final(lg2), Final(lg)), Arrives(lg, u, more, x)
  PROVE  Arrives(lg2, u, more, x)
BY DEF Arrives, Holds

LEMMA GrownKept ==
  ASSUME NEW e \in Nat, NEW e2 \in Nat, NEW lg, NEW lg2, LogGrows(e, lg, e2, lg2), NEW t, t.epoch \in Nat, t.epoch <= e,
         NEW u, NEW d, NEW h, Kept(e, lg, t, u, d, h)
  PROVE  Kept(e2, lg2, t, u, d, h)
<1> SUFFICES ASSUME t.epoch = e2, ~ Orphaned(t, u, d) PROVE Accounted(lg2, t, u, h) BY DEF Kept
<1>1. e2 = e /\ Holds(Final(lg2), Final(lg)) BY DEF LogGrows
<1>2. Accounted(lg, t, u, h) BY <1>1 DEF Kept
<1> QED BY <1>1, <1>2, GrownArrives DEF Accounted

\* What an answer said stays true.
LEMMA GrownTruthful ==
  ASSUME NEW e \in Nat, NEW e2 \in Nat, NEW lg, NEW lg2, LogGrows(e, lg, e2, lg2), NEW m \in Downward, Truthful(e, lg, m)
  PROVE  Truthful(e2, lg2, m)
<1> SUFFICES ASSUME IsState(m) PROVE Truthful(e2, lg2, m) BY DEF Truthful
<1>1. m.epoch \in Nat BY DEF Downward, AnswerRow, ErrorRow, IsState, StateType
<1>2. CASE e2 > e BY <1>1, <1>2 DEF Truthful
<1>3. CASE ~ e2 > e
  <2>1. e2 = e /\ DOMAIN lg \subseteq DOMAIN lg2 /\ \A i \in DOMAIN lg : lg2[i] = lg[i] BY <1>3 DEF LogGrows
  <2> QED BY <1>1, <2>1 DEF Truthful
<1> QED BY <1>2, <1>3

\* A client keeps its promises when the log grows or the epoch ends.
LEMMA GrownClient ==
  ASSUME NEW e \in Nat, NEW e2 \in Nat, NEW lg, NEW lg2, LogGrows(e, lg, e2, lg2), Len(lg) \in Nat, Len(lg2) \in Nat,
         NEW t, NEW s, NEW u, NEW d, NEW h, ClientFits(e, lg, t, s, u, d, h)
  PROVE  ClientFits(e2, lg2, t, s, u, d, h)
<1>1. Shaped(t, s, u, d, h) /\ TabFits(e, t, h) /\ QueuesFit(t, u, d) /\ Unplugged(t, s, u, d) /\ Continues(t, s, d)
      /\ (\A i \in DOMAIN d : Truthful(e, lg, d[i])) /\ Seen(e, lg, t) /\ Followed(e, lg, s) /\ Kept(e, lg, t, u, d, h)
  BY DEF ClientFits
<1>2. t.epoch \in Nat /\ s.epoch \in Nat /\ s.sequence \in Nat BY <1>1 DEF Shaped, TabRow, SocketRow
<1>3. e <= e2 BY DEF LogGrows
<1>4. TabFits(e2, t, h) BY <1>1, <1>2, <1>3 DEF TabFits
<1>5. \A i \in DOMAIN d : Truthful(e2, lg2, d[i])
  <2>1. \A i \in DOMAIN d : d[i] \in Downward BY <1>1 DEF Shaped
  <2> QED BY <1>1, <2>1, GrownTruthful
<1>6. Seen(e2, lg2, t)
  <2> SUFFICES ASSUME t.epoch = e2, t.sequence > 0 PROVE t.sequence \in DOMAIN lg2 /\ Holds(t.doc, lg2[t.sequence])
    BY DEF Seen
  <2>1. e2 = e /\ DOMAIN lg \subseteq DOMAIN lg2 /\ \A i \in DOMAIN lg : lg2[i] = lg[i] BY <1>1, <1>2 DEF LogGrows, TabFits
  <2> QED BY <1>1, <2>1 DEF Seen
<1>7. Followed(e2, lg2, s) BY <1>1, <1>2, <1>3 DEF Followed, LogGrows
<1>8. Kept(e2, lg2, t, u, d, h) BY <1>1, <1>2, GrownKept DEF TabFits
<1> QED BY <1>1, <1>4, <1>5, <1>6, <1>7, <1>8 DEF ClientFits

----------------
(* Messages that go and come.                                                 *)

\* The server takes a request.
LEMMA TakenUp ==
  ASSUME NEW t, NEW u, NEW d, NEW v, QueuesFit(t, u, d), Shorter(u, v)
  PROVE  QueuesFit(t, v, d)
<1>1. \A i \in DOMAIN v : i + 1 \in DOMAIN u /\ v[i] = u[i + 1] /\ i \in Int BY DEF Shorter
<1>2. Requested(t, v) BY <1>1 DEF QueuesFit, Requested
<1>3. InTurn(v)
  <2> SUFFICES ASSUME NEW i \in DOMAIN v, NEW j \in DOMAIN v, i < j PROVE v[i].id < v[j].id
    BY DEF InTurn
  <2>1. i + 1 \in DOMAIN u /\ j + 1 \in DOMAIN u /\ i + 1 < j + 1 BY <1>1
  <2> QED BY <1>1, <2>1 DEF QueuesFit, InTurn
<1>4. Answered(t, v, d)
  <2> SUFFICES ASSUME NEW i \in DOMAIN d, IsAck(d[i])
               PROVE  /\ d[i].id <= t.request
                      /\ \A j \in DOMAIN v : d[i].id < v[j].id
                      /\ \A j \in DOMAIN d : i < j /\ IsAck(d[j]) => d[i].id < d[j].id
    BY DEF Answered
  <2>1. /\ d[i].id <= t.request /\ \A j \in DOMAIN u : d[i].id < u[j].id
        /\ \A j \in DOMAIN d : i < j /\ IsAck(d[j]) => d[i].id < d[j].id
    BY DEF QueuesFit, Answered
  <2> QED BY <1>1, <2>1
<1>5. HelloFirst(t, v, d)
  <2>1. u # <<>> BY DEF Shorter
  <2> QED BY <2>1 DEF QueuesFit, HelloFirst
<1> QED BY <1>2, <1>3, <1>4, <1>5 DEF QueuesFit

\* The server answers, or tells what it has.
LEMMA ToldDown ==
  ASSUME NEW t, NEW u, NEW d, NEW m, NEW v, QueuesFit(t, u, d), Longer(d, m, v), m.type # "hello",
         IsAck(m) => /\ m.id <= t.request /\ \A j \in DOMAIN u : m.id < u[j].id
                     /\ \A i \in DOMAIN d : IsAck(d[i]) => d[i].id < m.id
  PROVE  QueuesFit(t, u, v)
<1>1. \A i \in DOMAIN v : (i \in DOMAIN d /\ v[i] = d[i]) \/ (i = Len(d) + 1 /\ v[i] = m) BY DEF Longer
<1>2. \A i \in DOMAIN v : i \in Int /\ (i \in DOMAIN d => i < Len(d) + 1) BY DEF Longer
<1>3. Answered(t, u, v)
  <2> SUFFICES ASSUME NEW i \in DOMAIN v, IsAck(v[i])
               PROVE  /\ v[i].id <= t.request
                      /\ \A j \in DOMAIN u : v[i].id < u[j].id
                      /\ \A j \in DOMAIN v : i < j /\ IsAck(v[j]) => v[i].id < v[j].id
    BY DEF Answered
  <2>1. CASE i \in DOMAIN d /\ v[i] = d[i]
    <3>0. /\ d[i].id <= t.request /\ \A j \in DOMAIN u : d[i].id < u[j].id
          /\ \A j \in DOMAIN d : i < j /\ IsAck(d[j]) => d[i].id < d[j].id
      BY <2>1 DEF QueuesFit, Answered
    <3>2. \A j \in DOMAIN v : i < j /\ IsAck(v[j]) => v[i].id < v[j].id
      <4> SUFFICES ASSUME NEW j \in DOMAIN v, i < j, IsAck(v[j]) PROVE v[i].id < v[j].id
        OBVIOUS
      <4>1. CASE j \in DOMAIN d /\ v[j] = d[j] BY <2>1, <3>0, <4>1
      <4>2. CASE j = Len(d) + 1 /\ v[j] = m BY <2>1, <4>2
      <4> QED BY <1>1, <4>1, <4>2
    <3> QED BY <2>1, <3>0, <3>2
  <2>2. CASE i = Len(d) + 1 /\ v[i] = m
    <3>1. \A j \in DOMAIN v : ~ i < j BY <2>2 DEF Longer
    <3> QED BY <2>2, <3>1
  <2> QED BY <1>1, <2>1, <2>2
<1>4. HelloFirst(t, u, v) BY <1>1 DEF QueuesFit, HelloFirst
<1> QED BY <1>3, <1>4 DEF QueuesFit

\* The tab takes a message: the hello comes first, so that none is left.
LEMMA TakenDown ==
  ASSUME NEW t, NEW u, NEW d, NEW v, QueuesFit(t, u, d), Shorter(d, v)
  PROVE  QueuesFit(t, u, v) /\ \A i \in DOMAIN v : v[i].type # "hello"
<1>1. \A i \in DOMAIN v : i + 1 \in DOMAIN d /\ v[i] = d[i + 1] /\ i \in Int /\ i + 1 # 1 BY DEF Shorter
<1>2. \A i \in DOMAIN v : v[i].type # "hello" BY <1>1 DEF QueuesFit, HelloFirst
<1>3. Answered(t, u, v)
  <2> SUFFICES ASSUME NEW i \in DOMAIN v, IsAck(v[i])
               PROVE  /\ v[i].id <= t.request
                      /\ \A j \in DOMAIN u : v[i].id < u[j].id
                      /\ \A j \in DOMAIN v : i < j /\ IsAck(v[j]) => v[i].id < v[j].id
    BY DEF Answered
  <2>1. i + 1 \in DOMAIN d /\ IsAck(d[i + 1]) /\ v[i] = d[i + 1] BY <1>1
  <2>2. /\ d[i + 1].id <= t.request /\ \A j \in DOMAIN u : d[i + 1].id < u[j].id
        /\ \A j \in DOMAIN d : i + 1 < j /\ IsAck(d[j]) => d[i + 1].id < d[j].id
    BY <2>1 DEF QueuesFit, Answered
  <2>3. ASSUME NEW j \in DOMAIN v, i < j, IsAck(v[j]) PROVE v[i].id < v[j].id
    <3>1. j + 1 \in DOMAIN d /\ i + 1 < j + 1 /\ v[j] = d[j + 1] BY <1>1, <2>3
    <3> QED BY <2>1, <2>2, <2>3, <3>1
  <2> QED BY <2>1, <2>2, <2>3
<1> QED BY <1>2, <1>3 DEF QueuesFit, HelloFirst

\* Messages go on from what the server last said.
LEMMA ToldContinues ==
  ASSUME NEW t, NEW s, NEW d, NEW r, NEW m, NEW v, Continues(t, s, d), Longer(d, m, v),
         IsState(m) => /\ m.from # 0 => s.open /\ m.epoch = s.epoch /\ m.from = s.sequence
                       /\ r.open => r.epoch = m.epoch /\ r.sequence = m.sequence,
         ~ IsState(m) => r = s
  PROVE  Continues(t, r, v)
<1> SUFFICES ASSUME t.status \in {"syncing", "connected"}
             PROVE  /\ \A i \in DOMAIN v : IsState(v[i]) /\ v[i].from # 0 => Reached(t, v, i, v[i].epoch, v[i].from)
                    /\ r.open => Reached(t, v, Len(v) + 1, r.epoch, r.sequence)
  BY DEF Continues
<1>1. \A i \in DOMAIN v : (i \in DOMAIN d /\ v[i] = d[i]) \/ (i = Len(d) + 1 /\ v[i] = m) BY DEF Longer
<1>2. Len(d) + 1 \in DOMAIN v /\ v[Len(d) + 1] = m /\ Len(d) \in Nat /\ DOMAIN d = 1 .. Len(d) /\ DOMAIN v = 1 .. Len(d) + 1
      /\ \A i \in DOMAIN d : v[i] = d[i]
  BY DEF Longer
<1>3. ASSUME NEW i \in 1 .. Len(d) + 1, NEW a, NEW n, Reached(t, d, i, a, n) PROVE Reached(t, v, i, a, n)
  <2>1. \A k \in DOMAIN v : k < i => k \in DOMAIN d /\ v[k] = d[k] BY <1>2
  <2>2. \A k \in DOMAIN d : k \in DOMAIN v /\ v[k] = d[k] BY <1>2
  <2>3. ASSUME NEW j \in DOMAIN v, j < i, IsState(v[j]), \A k \in DOMAIN v : j < k /\ k < i => ~ IsState(v[k])
        PROVE  v[j].epoch = a /\ v[j].sequence = n
    <3>1. j \in DOMAIN d /\ v[j] = d[j] BY <2>1, <2>3
    <3>2. \A k \in DOMAIN d : j < k /\ k < i => ~ IsState(d[k]) BY <2>2, <2>3
    <3> QED BY <1>3, <2>3, <3>1, <3>2 DEF Reached
  <2>4. ASSUME \A k \in DOMAIN v : k < i => ~ IsState(v[k])
        PROVE  t.epoch = a /\ t.sequence = n /\ (n # 0 => t.initialized)
    <3>1. \A k \in DOMAIN d : k < i => ~ IsState(d[k]) BY <2>2, <2>4
    <3> QED BY <1>3, <3>1 DEF Reached
  <2> QED BY <2>3, <2>4 DEF Reached
<1>4. \A i \in DOMAIN v : IsState(v[i]) /\ v[i].from # 0 => Reached(t, v, i, v[i].epoch, v[i].from)
  <2> SUFFICES ASSUME NEW i \in DOMAIN v, IsState(v[i]), v[i].from # 0 PROVE Reached(t, v, i, v[i].epoch, v[i].from)
    OBVIOUS
  <2>1. CASE i \in DOMAIN d /\ v[i] = d[i]
    <3>1. Reached(t, d, i, d[i].epoch, d[i].from) BY <2>1 DEF Continues
    <3>2. i \in 1 .. Len(d) + 1 BY <1>2
    <3> QED BY <1>3, <2>1, <3>1, <3>2
  <2>2. CASE i = Len(d) + 1 /\ v[i] = m
    <3>1. s.open /\ m.epoch = s.epoch /\ m.from = s.sequence BY <2>2
    <3>2. Reached(t, d, Len(d) + 1, s.epoch, s.sequence) BY <3>1 DEF Continues
    <3>3. i \in 1 .. Len(d) + 1 BY <1>2
    <3> QED BY <1>3, <2>2, <3>1, <3>2, <3>3
  <2> QED BY <1>1, <2>1, <2>2
<1>5. ASSUME r.open PROVE Reached(t, v, Len(v) + 1, r.epoch, r.sequence)
  <2>0. Len(v) = Len(d) + 1 BY DEF Longer
  <2>1. CASE IsState(m)
    <3>1. r.epoch = m.epoch /\ r.sequence = m.sequence BY <1>5, <2>1
    <3>2. ASSUME NEW j \in DOMAIN v, j < Len(v) + 1, IsState(v[j]), \A k \in DOMAIN v : j < k /\ k < Len(v) + 1 => ~ IsState(v[k])
          PROVE  v[j].epoch = r.epoch /\ v[j].sequence = r.sequence
      <4>1. j = Len(d) + 1
        <5> SUFFICES ASSUME j < Len(d) + 1 PROVE FALSE BY <1>2
        <5>1. Len(d) + 1 < Len(v) + 1 BY <1>2, <2>0
        <5> QED BY <1>2, <2>1, <3>2, <5>1
      <4> QED BY <1>2, <3>1, <4>1
    <3>3. ~ \A k \in DOMAIN v : k < Len(v) + 1 => ~ IsState(v[k])
      <4>1. Len(d) + 1 < Len(v) + 1 BY <1>2, <2>0
      <4> QED BY <1>2, <2>1, <4>1
    <3> QED BY <3>2, <3>3 DEF Reached
  <2>2. CASE ~ IsState(m)
    <3>1. Reached(t, d, Len(d) + 1, r.epoch, r.sequence) BY <1>5, <2>2 DEF Continues
    <3>2. Reached(t, v, Len(d) + 1, r.epoch, r.sequence)
      <4>1. Len(d) + 1 \in 1 .. Len(d) + 1 BY <1>2
      <4> QED BY <1>3, <3>1, <4>1
    <3>3. ASSUME NEW j \in DOMAIN v, j < Len(v) + 1, IsState(v[j]), \A k \in DOMAIN v : j < k /\ k < Len(v) + 1 => ~ IsState(v[k])
          PROVE  v[j].epoch = r.epoch /\ v[j].sequence = r.sequence
      <4>1. j < Len(d) + 1 BY <1>2, <2>2, <3>3
      <4>2. \A k \in DOMAIN v : j < k /\ k < Len(d) + 1 => ~ IsState(v[k]) BY <1>2, <2>0, <3>3
      <4> QED BY <3>2, <3>3, <4>1, <4>2 DEF Reached
    <3>4. ASSUME \A k \in DOMAIN v : k < Len(v) + 1 => ~ IsState(v[k])
          PROVE  t.epoch = r.epoch /\ t.sequence = r.sequence /\ (r.sequence # 0 => t.initialized)
      <4>1. \A k \in DOMAIN v : k < Len(d) + 1 => ~ IsState(v[k]) BY <1>2, <2>0, <3>4
      <4> QED BY <3>2, <4>1 DEF Reached
    <3> QED BY <3>3, <3>4 DEF Reached
  <2> QED BY <2>1, <2>2
<1> QED BY <1>4, <1>5

\* The tab goes on from the message it has taken.
LEMMA TakenContinues ==
  ASSUME NEW t, NEW s, NEW d, NEW r, NEW v, Continues(t, s, d), Shorter(d, v),
         r.status \in {"syncing", "connected"} =>
           /\ t.status \in {"syncing", "connected"}
           /\ ~ IsState(d[1]) => r.epoch = t.epoch /\ r.sequence = t.sequence /\ r.initialized = t.initialized
           /\ IsState(d[1]) => /\ r.epoch = d[1].epoch /\ r.sequence = d[1].sequence
                               /\ r.sequence # 0 => r.initialized
  PROVE  Continues(r, s, v)
<1> SUFFICES ASSUME r.status \in {"syncing", "connected"}
             PROVE  /\ \A i \in DOMAIN v : IsState(v[i]) /\ v[i].from # 0 => Reached(r, v, i, v[i].epoch, v[i].from)
                    /\ s.open => Reached(r, v, Len(v) + 1, s.epoch, s.sequence)
  BY DEF Continues
<1>1. \A k \in DOMAIN v : k + 1 \in DOMAIN d /\ v[k] = d[k + 1] /\ k \in Int /\ k >= 1 BY DEF Shorter
<1>2. \A k \in DOMAIN d : k \in Int /\ (k = 1 \/ (k - 1 \in DOMAIN v /\ v[k - 1] = d[k])) BY DEF Shorter
<1>3. 1 \in DOMAIN d /\ Len(v) + 1 = Len(d) /\ Len(d) \in Nat \ {0} BY DEF Shorter
<1>4. ASSUME NEW i \in Nat \ {0}, NEW a, NEW n, Reached(t, d, i + 1, a, n) PROVE Reached(r, v, i, a, n)
  <2>1. ASSUME NEW j \in DOMAIN v, j < i, IsState(v[j]), \A k \in DOMAIN v : j < k /\ k < i => ~ IsState(v[k])
        PROVE  v[j].epoch = a /\ v[j].sequence = n
    <3>1. j + 1 \in DOMAIN d /\ v[j] = d[j + 1] /\ j + 1 < i + 1 /\ IsState(d[j + 1]) BY <1>1, <2>1
    <3>2. ASSUME NEW k \in DOMAIN d, j + 1 < k, k < i + 1 PROVE ~ IsState(d[k])
      <4>1. k - 1 \in DOMAIN v /\ v[k - 1] = d[k] BY <1>1, <1>2, <3>2
      <4>2. j < k - 1 /\ k - 1 < i BY <1>1, <1>2, <3>2
      <4> QED BY <2>1, <4>1, <4>2
    <3>3. d[j + 1].epoch = a /\ d[j + 1].sequence = n BY <1>4, <3>1, <3>2 DEF Reached
    <3> QED BY <3>1, <3>3
  <2>2. ASSUME \A k \in DOMAIN v : k < i => ~ IsState(v[k])
        PROVE  r.epoch = a /\ r.sequence = n /\ (n # 0 => r.initialized)
    <3>1. ASSUME NEW k \in DOMAIN d, 1 < k, k < i + 1 PROVE ~ IsState(d[k])
      <4>1. k - 1 \in DOMAIN v /\ v[k - 1] = d[k] BY <1>2, <3>1
      <4>2. k - 1 < i BY <1>2, <3>1
      <4> QED BY <2>2, <4>1, <4>2
    <3>2. CASE IsState(d[1])
      <4>1. 1 < i + 1 OBVIOUS
      <4>2. d[1].epoch = a /\ d[1].sequence = n BY <1>3, <1>4, <3>1, <3>2, <4>1 DEF Reached
      <4> QED BY <3>2, <4>2
    <3>3. CASE ~ IsState(d[1])
      <4>1. \A k \in DOMAIN d : k < i + 1 => ~ IsState(d[k])
        <5> SUFFICES ASSUME NEW k \in DOMAIN d, k < i + 1 PROVE ~ IsState(d[k])
          OBVIOUS
        <5>1. CASE k = 1 BY <3>3, <5>1
        <5>2. CASE k # 1
          <6>1. 1 < k BY <1>1, <1>2, <5>2
          <6> QED BY <3>1, <6>1
        <5> QED BY <5>1, <5>2
      <4>2. t.epoch = a /\ t.sequence = n /\ (n # 0 => t.initialized) BY <1>4, <4>1 DEF Reached
      <4> QED BY <3>3, <4>2
    <3> QED BY <3>2, <3>3
  <2> QED BY <2>1, <2>2 DEF Reached
<1>5. ASSUME NEW i \in DOMAIN v, IsState(v[i]), v[i].from # 0 PROVE Reached(r, v, i, v[i].epoch, v[i].from)
  <2>1. i + 1 \in DOMAIN d /\ v[i] = d[i + 1] /\ i \in Nat \ {0} BY <1>1
  <2>2. Reached(t, d, i + 1, d[i + 1].epoch, d[i + 1].from) BY <1>5, <2>1 DEF Continues
  <2>3. Reached(t, d, i + 1, v[i].epoch, v[i].from) BY <2>1, <2>2
  <2> QED BY <1>4, <2>1, <2>3
<1>6. ASSUME s.open PROVE Reached(r, v, Len(v) + 1, s.epoch, s.sequence)
  <2>1. Reached(t, d, Len(d) + 1, s.epoch, s.sequence) BY <1>6 DEF Continues
  <2>2. Reached(r, v, Len(d), s.epoch, s.sequence) BY <1>3, <1>4, <2>1
  <2> QED BY <1>3, <2>2
<1> QED BY <1>5, <1>6

----------------
(* What is made is kept.                                                      *)

LEMMA KeptTold ==
  ASSUME NEW e, NEW lg, NEW t, NEW u, NEW d, NEW h, NEW m, NEW v, Kept(e, lg, t, u, d, h), Longer(d, m, v), ~ IsAck(m)
  PROVE  Kept(e, lg, t, u, v, h)
<1>1. \A i \in DOMAIN v : (i \in DOMAIN d /\ v[i] = d[i]) \/ (i = Len(d) + 1 /\ v[i] = m) BY DEF Longer
<1>2. Orphaned(t, u, d) => Orphaned(t, u, v) BY <1>1 DEF Orphaned
<1> QED BY <1>2 DEF Kept

\* A request that is refused has no answer: nothing acknowledges it any more.
LEMMA KeptRefused ==
  ASSUME NEW e, NEW lg, NEW t, NEW u, NEW w, NEW d, NEW h, NEW m, NEW v, QueuesFit(t, u, d), Longer(d, m, v), ~ IsAck(m),
         Shorter(u, w), \A i \in DOMAIN u : u[i].id \in Nat, \A i \in DOMAIN d : IsAck(d[i]) => d[i].id \in Nat
  PROVE  Kept(e, lg, t, w, v, h)
<1>1. 1 \in DOMAIN u BY DEF Shorter
<1>2. PICK f \in t.inFlight : f[1] = u[1].id BY <1>1 DEF QueuesFit, Requested
<1>3. \A i \in DOMAIN w : i + 1 \in DOMAIN u /\ w[i] = u[i + 1] /\ 1 < i + 1 BY DEF Shorter
<1>4. \A i \in DOMAIN w : w[i].id # f[1]
  <2> SUFFICES ASSUME NEW i \in DOMAIN w PROVE w[i].id # f[1]
    OBVIOUS
  <2>1. u[1].id < u[i + 1].id BY <1>1, <1>3 DEF QueuesFit, InTurn
  <2> QED BY <1>1, <1>2, <1>3, <2>1
<1>5. \A i \in DOMAIN v : (i \in DOMAIN d /\ v[i] = d[i]) \/ (i = Len(d) + 1 /\ v[i] = m) BY DEF Longer
<1>6. \A i \in DOMAIN v : IsAck(v[i]) => v[i].id # f[1]
  <2> SUFFICES ASSUME NEW i \in DOMAIN v, IsAck(v[i]) PROVE v[i].id # f[1]
    OBVIOUS
  <2>1. i \in DOMAIN d /\ v[i] = d[i] BY <1>5
  <2>2. d[i].id < u[1].id BY <1>1, <2>1 DEF QueuesFit, Answered
  <2> QED BY <1>1, <1>2, <2>1, <2>2
<1> QED BY <1>4, <1>6 DEF Kept, Orphaned

\* A request that is committed is in the log when it leaves the queue.
LEMMA ArrivesCommitted ==
  ASSUME NEW lg, NEW u, NEW w, NEW more, NEW x, Shorter(u, w), Holds(Final(lg), u[1].state), Arrives(lg, u, more, x)
  PROVE  Arrives(lg, w, more, x)
<1>1. \A i \in DOMAIN u : i = 1 \/ (i - 1 \in DOMAIN w /\ w[i - 1] = u[i]) BY DEF Shorter
<1>2. \A b \in x.blocks : b \in Final(lg).blocks \/ b \in more.blocks \/ \E i \in DOMAIN w : b \in w[i].state.blocks
  <2> SUFFICES ASSUME NEW b \in x.blocks, b \notin Final(lg).blocks, b \notin more.blocks
               PROVE  \E i \in DOMAIN w : b \in w[i].state.blocks
    OBVIOUS
  <2>1. PICK i \in DOMAIN u : b \in u[i].state.blocks BY DEF Arrives
  <2>2. i # 1 BY <2>1 DEF Holds
  <2> QED BY <1>1, <2>1, <2>2
<1>3. \A b \in x.erased : b \in Final(lg).erased \/ b \in more.erased \/ \E i \in DOMAIN w : b \in w[i].state.erased
  <2> SUFFICES ASSUME NEW b \in x.erased, b \notin Final(lg).erased, b \notin more.erased
               PROVE  \E i \in DOMAIN w : b \in w[i].state.erased
    OBVIOUS
  <2>1. PICK i \in DOMAIN u : b \in u[i].state.erased BY DEF Arrives
  <2>2. i # 1 BY <2>1 DEF Holds
  <2> QED BY <1>1, <2>1, <2>2
<1> QED BY <1>2, <1>3 DEF Arrives

LEMMA KeptAnswered ==
  ASSUME NEW e, NEW lg, NEW t, NEW u, NEW w, NEW d, NEW h, NEW m, NEW v, Kept(e, lg, t, u, d, h), QueuesFit(t, u, d),
         Longer(d, m, v), m.id = u[1].id, Shorter(u, w), t.epoch = e => Holds(Final(lg), u[1].state)
  PROVE  Kept(e, lg, t, w, v, h)
<1> SUFFICES ASSUME t.epoch = e PROVE Orphaned(t, w, v) \/ Accounted(lg, t, w, h) BY DEF Kept
<1>1. 1 \in DOMAIN u BY DEF Shorter
<1>2. CASE Orphaned(t, u, d)
  <2>1. PICK f \in t.inFlight : /\ \A i \in DOMAIN u : u[i].id # f[1]
                                /\ \A i \in DOMAIN d : IsAck(d[i]) => d[i].id # f[1]
    BY <1>2 DEF Orphaned
  <2>2. \A i \in DOMAIN w : w[i].id # f[1] BY <2>1 DEF Shorter
  <2>3. \A i \in DOMAIN v : (i \in DOMAIN d /\ v[i] = d[i]) \/ (i = Len(d) + 1 /\ v[i] = m) BY DEF Longer
  <2>4. \A i \in DOMAIN v : IsAck(v[i]) => v[i].id # f[1] BY <1>1, <2>1, <2>3
  <2> QED BY <2>1, <2>2, <2>4 DEF Orphaned
<1>3. CASE Accounted(lg, t, u, h)
  <2>1. Accounted(lg, t, w, h) BY <1>3, ArrivesCommitted DEF Accounted
  <2> QED BY <2>1
<1> QED BY <1>2, <1>3 DEF Kept

\* A message was taken, and perhaps a request acknowledged by it.
LEMMA KeptTaken ==
  ASSUME NEW e, NEW lg, NEW t, NEW u, NEW d, NEW h, NEW r, NEW v, Kept(e, lg, t, u, d, h), Shorter(d, v),
         r.revision = t.revision, r.updates = t.updates, r.epoch = e => t.epoch = e \/ t.revision = 0,
         \A f \in t.inFlight : f \in r.inFlight \/ (IsAck(d[1]) /\ d[1].id = f[1]),
         \A n \in 1 .. t.revision : Sent(r, n) => Sent(t, n)
  PROVE  Kept(e, lg, r, u, v, h)
<1> SUFFICES ASSUME r.epoch = e PROVE Orphaned(r, u, v) \/ Accounted(lg, r, u, h) BY DEF Kept
<1>1. CASE t.revision = 0 BY <1>1 DEF Accounted
<1>2. CASE t.epoch = e /\ Orphaned(t, u, d)
  <2>1. PICK f \in t.inFlight : /\ \A i \in DOMAIN u : u[i].id # f[1]
                                /\ \A i \in DOMAIN d : IsAck(d[i]) => d[i].id # f[1]
    BY <1>2 DEF Orphaned
  <2>2. \A i \in DOMAIN v : IsAck(v[i]) => v[i].id # f[1] BY <2>1 DEF Shorter
  <2>3. f \in r.inFlight BY <2>1 DEF Shorter
  <2> QED BY <2>1, <2>2, <2>3 DEF Orphaned
<1>3. CASE t.epoch = e /\ Accounted(lg, t, u, h) BY <1>3 DEF Accounted
<1> QED BY <1>1, <1>2, <1>3 DEF Kept

\* A request that carries what was made brings it to the server.
LEMMA ArrivesCarried ==
  ASSUME NEW lg, NEW u, NEW x, NEW w, NEW y, Longer(u, x, w), Holds(x.state, y)
  PROVE  Arrives(lg, w, Empty, y)
<1>1. Len(u) + 1 \in DOMAIN w /\ w[Len(u) + 1] = x BY DEF Longer
<1> QED BY <1>1 DEF Arrives, Holds

LEMMA ArrivesFlushed ==
  ASSUME NEW lg, NEW u, NEW x, NEW w, NEW y, Longer(u, x, w), Arrives(lg, u, x.state, y)
  PROVE  Arrives(lg, w, Empty, y)
<1>1. Len(u) + 1 \in DOMAIN w /\ w[Len(u) + 1] = x BY DEF Longer
<1>2. \A i \in DOMAIN u : i \in DOMAIN w /\ w[i] = u[i] BY DEF Longer
<1> QED BY <1>1, <1>2 DEF Arrives

LEMMA KeptAsked ==
  ASSUME NEW e, NEW lg, NEW t, NEW u, NEW d, NEW h, NEW x, NEW w, NEW r, Longer(u, x, w),
         t.inFlight \subseteq r.inFlight, \A f \in t.inFlight : f[1] # x.id,
         r.epoch = e => Orphaned(t, u, d) \/ \A n \in 1 .. r.revision : Arrives(lg, w, Empty, h[n])
  PROVE  Kept(e, lg, r, w, d, h)
<1> SUFFICES ASSUME r.epoch = e PROVE Orphaned(r, w, d) \/ Accounted(lg, r, w, h) BY DEF Kept
<1>1. CASE Orphaned(t, u, d)
  <2>1. \A i \in DOMAIN w : (i \in DOMAIN u /\ w[i] = u[i]) \/ w[i] = x BY DEF Longer
  <2> QED BY <1>1, <2>1 DEF Orphaned
<1>2. CASE \A n \in 1 .. r.revision : Arrives(lg, w, Empty, h[n])
  <2>1. \A n \in 1 .. r.revision : Arrives(lg, w, r.updates, h[n]) BY <1>2 DEF Arrives, Empty
  <2> QED BY <1>2, <2>1 DEF Accounted
<1> QED BY <1>1, <1>2

\* Queues of a tab that has changed.
LEMMA QueuesLike ==
  ASSUME NEW t, NEW u, NEW d, NEW r, QueuesFit(t, u, d), r.request = t.request, u # <<>> => r.epoch = t.epoch,
         DOMAIN u # {} => u # <<>>,
         \A f \in t.inFlight : f \in r.inFlight \/ \A j \in DOMAIN u : u[j].id # f[1],
         \A i \in DOMAIN d : d[i].type # "hello"
  PROVE  QueuesFit(r, u, d)
<1>1. Requested(r, u) BY DEF QueuesFit, Requested
<1>2. Answered(r, u, d) BY DEF QueuesFit, Answered
<1>3. HelloFirst(r, u, d) BY DEF HelloFirst
<1> QED BY <1>1, <1>2, <1>3 DEF QueuesFit

\* r is the tab t after it has sent the request x.
Asks(t, u, x, r) ==
  /\ x.id = t.request + 1 /\ r.request = t.request + 1 /\ x.epoch = r.epoch /\ r.epoch # 0 /\ r.epoch = t.epoch
  /\ \A i \in DOMAIN u : \E f \in r.inFlight : f[1] = u[i].id
  /\ \E f \in r.inFlight : f[1] = x.id
  /\ x.type = "seed" => Starts(x.state) # {}

LEMMA QueuesAsked ==
  ASSUME NEW t, NEW u, NEW d, NEW x, NEW w, NEW r, QueuesFit(t, u, d), Longer(u, x, w), t.request \in Nat,
         \A i \in DOMAIN u : u[i].id \in Nat, \A i \in DOMAIN d : d[i].id \in Nat,
         Asks(t, u, x, r), \A i \in DOMAIN d : d[i].type # "hello"
  PROVE  QueuesFit(r, w, d)
<1>0. /\ x.id = t.request + 1 /\ r.request = t.request + 1 /\ x.epoch = r.epoch /\ r.epoch # 0
      /\ \A i \in DOMAIN u : u[i].epoch = r.epoch /\ \E f \in r.inFlight : f[1] = u[i].id
      /\ \E f \in r.inFlight : f[1] = x.id
      /\ x.type = "seed" => Starts(x.state) # {}
  BY DEF Asks, QueuesFit, Requested
<1>1. \A i \in DOMAIN w : (i \in DOMAIN u /\ w[i] = u[i] /\ i < Len(u) + 1) \/ (w[i] = x /\ i = Len(u) + 1) BY DEF Longer
<1>2. \A i \in DOMAIN u : u[i].id <= t.request /\ (u[i].type = "seed" => Starts(u[i].state) # {})
  BY DEF QueuesFit, Requested
<1>3. Requested(r, w)
  <2> SUFFICES ASSUME NEW i \in DOMAIN w
               PROVE  /\ w[i].epoch = r.epoch /\ w[i].epoch # 0 /\ w[i].id <= r.request
                      /\ \E f \in r.inFlight : f[1] = w[i].id
                      /\ w[i].type = "seed" => Starts(w[i].state) # {}
    BY DEF Requested
  <2>1. CASE i \in DOMAIN u /\ w[i] = u[i] BY <1>0, <1>2, <2>1
  <2>2. CASE w[i] = x BY <1>0, <2>2
  <2> QED BY <1>1, <2>1, <2>2
<1>4. InTurn(w)
  <2> SUFFICES ASSUME NEW i \in DOMAIN w, NEW j \in DOMAIN w, i < j PROVE w[i].id < w[j].id
    BY DEF InTurn
  <2>0. i \in Int /\ j \in Int /\ Len(u) \in Nat BY DEF Longer
  <2>1. i \in DOMAIN u /\ w[i] = u[i] BY <1>1, <2>0
  <2>2. CASE j \in DOMAIN u /\ w[j] = u[j] BY <2>1, <2>2 DEF QueuesFit, InTurn
  <2>3. CASE w[j] = x BY <1>0, <1>2, <2>1, <2>3
  <2> QED BY <1>1, <2>2, <2>3
<1>5. Answered(r, w, d)
  <2> SUFFICES ASSUME NEW i \in DOMAIN d, IsAck(d[i])
               PROVE  /\ d[i].id <= r.request
                      /\ \A j \in DOMAIN w : d[i].id < w[j].id
                      /\ \A j \in DOMAIN d : i < j /\ IsAck(d[j]) => d[i].id < d[j].id
    BY DEF Answered
  <2>1. /\ d[i].id <= t.request /\ \A j \in DOMAIN u : d[i].id < u[j].id
        /\ \A j \in DOMAIN d : i < j /\ IsAck(d[j]) => d[i].id < d[j].id
    BY DEF QueuesFit, Answered
  <2>2. d[i].id <= r.request /\ d[i].id < x.id BY <1>0, <2>1
  <2> QED BY <1>1, <2>1, <2>2
<1>6. HelloFirst(r, w, d) BY DEF HelloFirst
<1> QED BY <1>3, <1>4, <1>5, <1>6 DEF QueuesFit

----------------
(* The tab.                                                                   *)

\* What acknowledging a request does: the request is no longer in flight, and
\* what is called saved was in flight or saved before.
LEMMA AcknowledgedTab ==
  ASSUME NEW t \in TabRow, NEW m, \A f \in t.inFlight : f[2] <= t.revision, t.saved <= t.revision
  PROVE  LET r == Acknowledged(t, m)
         IN  /\ r = [t EXCEPT !.saved = r.saved, !.inFlight = {f \in t.inFlight : f[1] # m.id}]
             /\ r.saved \in Nat /\ r.saved <= t.revision
             /\ \A n \in Nat : Sent(r, n) => Sent(t, n)
<1> DEFINE revisions == {f[2] : f \in {g \in t.inFlight : g[1] = m.id}}
<1> DEFINE chosen == CHOOSE a \in revisions : TRUE
<1> DEFINE kept == IF \E a \in revisions : a > t.saved THEN chosen ELSE t.saved
<1> DEFINE r == [t EXCEPT !.saved = kept, !.inFlight = {f \in t.inFlight : f[1] # m.id}]
<1>1. Acknowledged(t, m) = r BY DEF Acknowledged
<1>2. t.inFlight \in SUBSET (Nat \X Nat) /\ t.saved \in Nat /\ t.revision \in Nat BY DEF TabRow
<1>3. r.saved = kept /\ r.inFlight = {f \in t.inFlight : f[1] # m.id} BY DEF TabRow
<1>4. ASSUME \E a \in revisions : a > t.saved PROVE \E f \in t.inFlight : kept = f[2]
  <2>1. chosen \in revisions BY <1>4
  <2>2. kept = chosen BY <1>4
  <2> QED BY <2>1, <2>2
<1>5. kept = t.saved \/ \E f \in t.inFlight : kept = f[2] BY <1>4
<1>6. kept \in Nat /\ kept <= t.revision BY <1>2, <1>5
<1>7. \A n \in Nat : Sent(r, n) => Sent(t, n) BY <1>2, <1>3, <1>5 DEF Sent
<1>8. r = [t EXCEPT !.saved = r.saved, !.inFlight = {f \in t.inFlight : f[1] # m.id}] BY <1>3
<1> HIDE DEF r, kept
<1> QED BY <1>1, <1>3, <1>6, <1>7, <1>8

----------------
(* One client.                                                                *)

LEMMA QueueRows ==
  ASSUME NEW t, NEW s, NEW u, NEW d, NEW h, Shaped(t, s, u, d, h)
  PROVE  /\ \A i \in DOMAIN u : u[i] \in Upward /\ u[i].id \in Nat /\ u[i].state \in State /\ u[i].epoch \in Nat
         /\ \A i \in DOMAIN d : d[i] \in Downward /\ d[i].id \in Nat
         /\ u # <<>> => Tail(u) \in Seq(Upward) /\ Shorter(u, Tail(u)) /\ 1 \in DOMAIN u
         /\ d # <<>> => Tail(d) \in Seq(Downward) /\ Shorter(d, Tail(d)) /\ 1 \in DOMAIN d
         /\ DOMAIN u # {} => u # <<>>
         /\ t.request \in Nat /\ t.epoch \in Nat /\ t.revision \in Nat
<1>1. u \in Seq(Upward) /\ d \in Seq(Downward) BY DEF Shaped
<1>2. \A i \in DOMAIN u : u[i] \in Upward BY <1>1
<1>3. \A i \in DOMAIN d : d[i] \in Downward BY <1>1
<1>4. \A x \in Upward : x.id \in Nat /\ x.state \in State /\ x.epoch \in Nat BY DEF Upward
<1>5. \A x \in Downward : x.id \in Nat BY DEF Downward, AnswerRow, ErrorRow
<1>6. u # <<>> => Tail(u) \in Seq(Upward) /\ Shorter(u, Tail(u)) /\ 1 \in DOMAIN u BY <1>1, ShorterOf
<1>7. d # <<>> => Tail(d) \in Seq(Downward) /\ Shorter(d, Tail(d)) /\ 1 \in DOMAIN d BY <1>1, ShorterOf
<1>8. t.request \in Nat /\ t.epoch \in Nat /\ t.revision \in Nat BY DEF Shaped, TabRow
<1>9. DOMAIN u # {} => u # <<>> BY <1>1
<1> QED BY <1>2, <1>3, <1>4, <1>5, <1>6, <1>7, <1>8, <1>9

\* The tab has taken the first message and is r after it.
LEMMA ClientTakes ==
  ASSUME NEW e, NEW lg, NEW t, NEW s, NEW u, NEW d, NEW h, NEW r, ClientFits(e, lg, t, s, u, d, h), d # <<>>,
         r \in TabRow, TabFits(e, r, h), r.status # "disconnected", r.request = t.request, u # <<>> => r.epoch = t.epoch,
         r.revision = t.revision, r.updates = t.updates, r.epoch = e => t.epoch = e \/ t.revision = 0,
         \A f \in t.inFlight : f \in r.inFlight \/ (IsAck(d[1]) /\ d[1].id = f[1]),
         \A n \in 1 .. t.revision : Sent(r, n) => Sent(t, n),
         r.status \in {"syncing", "connected"} =>
           /\ t.status \in {"syncing", "connected"}
           /\ ~ IsState(d[1]) => r.epoch = t.epoch /\ r.sequence = t.sequence /\ r.initialized = t.initialized
           /\ IsState(d[1]) => /\ r.epoch = d[1].epoch /\ r.sequence = d[1].sequence
                               /\ r.sequence # 0 => r.initialized,
         Seen(e, lg, r)
  PROVE  ClientFits(e, lg, r, s, u, Tail(d), h) /\ \A i \in DOMAIN Tail(d) : Tail(d)[i].type # "hello"
<1>1. Shaped(t, s, u, d, h) /\ QueuesFit(t, u, d) /\ Continues(t, s, d)
      /\ (\A i \in DOMAIN d : Truthful(e, lg, d[i])) /\ Followed(e, lg, s) /\ Kept(e, lg, t, u, d, h)
  BY DEF ClientFits
<1>2. Tail(d) \in Seq(Downward) /\ Shorter(d, Tail(d)) /\ 1 \in DOMAIN d BY <1>1, QueueRows
<1>3. QueuesFit(t, u, Tail(d)) /\ \A i \in DOMAIN Tail(d) : Tail(d)[i].type # "hello"
  <2>1. QueuesFit(t, u, d) BY <1>1
  <2>2. Shorter(d, Tail(d)) BY <1>2
  <2>3. QueuesFit(t, u, Tail(d)) BY ONLY <2>1, <2>2, TakenDown
  <2>4. \A i \in DOMAIN Tail(d) : Tail(d)[i].type # "hello" BY ONLY <2>1, <2>2, TakenDown
  <2> QED BY <2>3, <2>4
<1>4. QueuesFit(r, u, Tail(d))
  <2>1. \A f \in t.inFlight : f \in r.inFlight \/ \A j \in DOMAIN u : u[j].id # f[1]
    <3> SUFFICES ASSUME NEW f \in t.inFlight, f \notin r.inFlight, NEW j \in DOMAIN u PROVE u[j].id # f[1]
      OBVIOUS
    <3>1. IsAck(d[1]) /\ d[1].id = f[1] OBVIOUS
    <3>2. d[1].id < u[j].id BY <1>1, <1>2, <3>1 DEF QueuesFit, Answered
    <3>3. d[1].id \in Nat /\ u[j].id \in Nat BY <1>1, <1>2, QueueRows
    <3> QED BY <3>1, <3>2, <3>3
  <2>2. DOMAIN u # {} => u # <<>> BY <1>1, QueueRows
  <2> QED BY <1>3, <2>1, <2>2, QueuesLike
<1>5. Shaped(r, s, u, Tail(d), h) BY <1>1, <1>2 DEF Shaped
<1>6. \A i \in DOMAIN Tail(d) : Truthful(e, lg, Tail(d)[i])
  <2>1. \A i \in DOMAIN Tail(d) : i + 1 \in DOMAIN d /\ Tail(d)[i] = d[i + 1] BY <1>2 DEF Shorter
  <2> HIDE DEF ClientFits
  <2> QED BY <1>1, <2>1
<1>7. Continues(r, s, Tail(d)) BY <1>1, <1>2, TakenContinues
<1>8. Kept(e, lg, r, u, Tail(d), h) BY <1>1, <1>2, KeptTaken
<1>9. Unplugged(r, s, u, Tail(d)) BY DEF Unplugged
<1> QED BY <1>1, <1>3, <1>4, <1>5, <1>6, <1>7, <1>8, <1>9 DEF ClientFits

\* The tab has sent a request and is r after it.
LEMMA ClientAsks ==
  ASSUME NEW e, NEW lg, NEW t, NEW s, NEW u, NEW d, NEW h, NEW r, NEW x \in Upward, NEW k \in Seq(State),
         ClientFits(e, lg, t, s, u, d, h), \A i \in DOMAIN d : d[i].type # "hello",
         r \in TabRow, TabFits(e, r, k), r.status = t.status, r.status # "disconnected",
         r.sequence = t.sequence, r.initialized = t.initialized, r.doc = t.doc,
         Asks(t, u, x, r), Kept(e, lg, r, Append(u, x), d, k)
  PROVE  ClientFits(e, lg, r, s, Append(u, x), d, k)
<1>1. Shaped(t, s, u, d, h) /\ QueuesFit(t, u, d) /\ Continues(t, s, d)
      /\ (\A i \in DOMAIN d : Truthful(e, lg, d[i])) /\ Followed(e, lg, s) /\ Seen(e, lg, t)
  BY DEF ClientFits
<1>2. Append(u, x) \in Seq(Upward) /\ Longer(u, x, Append(u, x)) BY <1>1, LongerOf DEF Shaped
<1>3. QueuesFit(r, Append(u, x), d)
  <2>2. t.request \in Nat /\ (\A i \in DOMAIN u : u[i].id \in Nat) /\ (\A i \in DOMAIN d : d[i].id \in Nat) BY <1>1, QueueRows
  <2> QED BY <1>1, <1>2, <2>2, QueuesAsked
<1>4. Shaped(r, s, Append(u, x), d, k) BY <1>1, <1>2 DEF Shaped
<1>0. r.epoch = t.epoch BY DEF Asks
<1>5. Continues(r, s, d)
  <2>1. ASSUME NEW i, NEW a, NEW n, Reached(t, d, i, a, n) PROVE Reached(r, d, i, a, n) BY <1>0, <2>1 DEF Reached
  <2> QED BY <1>1, <2>1 DEF Continues
<1>6. Seen(e, lg, r) BY <1>0, <1>1 DEF Seen
<1>7. Unplugged(r, s, Append(u, x), d) BY DEF Unplugged
<1> QED BY <1>1, <1>3, <1>4, <1>5, <1>6, <1>7 DEF ClientFits

\* The server has answered the first request with m and follows the tab as r.
LEMMA ClientAnswered ==
  ASSUME NEW e, NEW lg, NEW t, NEW s, NEW u, NEW d, NEW h, NEW m \in Downward, NEW r \in SocketRow,
         ClientFits(e, lg, t, s, u, d, h), s.open, u # <<>>, m.id = u[1].id, m.type # "hello", Truthful(e, lg, m),
         IsState(m) => m.from = 0 /\ (r.open => r.epoch = m.epoch /\ r.sequence = m.sequence),
         ~ IsState(m) => r = s, Followed(e, lg, r), IsAck(m) /\ t.epoch = e => Holds(Final(lg), u[1].state)
  PROVE  ClientFits(e, lg, t, r, Tail(u), Append(d, m), h)
<1>1. Shaped(t, s, u, d, h) /\ TabFits(e, t, h) /\ QueuesFit(t, u, d) /\ Unplugged(t, s, u, d) /\ Continues(t, s, d)
      /\ (\A i \in DOMAIN d : Truthful(e, lg, d[i])) /\ Seen(e, lg, t) /\ Kept(e, lg, t, u, d, h)
  BY DEF ClientFits
<1>2. Append(d, m) \in Seq(Downward) /\ Longer(d, m, Append(d, m)) BY <1>1, LongerOf DEF Shaped
<1>3. Tail(u) \in Seq(Upward) /\ Shorter(u, Tail(u)) /\ 1 \in DOMAIN u BY <1>1, QueueRows
<1>4. (\A i \in DOMAIN u : u[i].id \in Nat) /\ (\A i \in DOMAIN d : d[i].id \in Nat) BY <1>1, QueueRows
<1>5. QueuesFit(t, Tail(u), d) BY <1>1, <1>3, TakenUp
<1>6. QueuesFit(t, Tail(u), Append(d, m))
  <2>1. m.id <= t.request BY <1>1, <1>3 DEF QueuesFit, Requested
  <2>2. \A j \in DOMAIN Tail(u) : m.id < Tail(u)[j].id
    <3> SUFFICES ASSUME NEW j \in DOMAIN Tail(u) PROVE u[1].id < Tail(u)[j].id
      OBVIOUS
    <3>1. j + 1 \in DOMAIN u /\ 1 < j + 1 /\ Tail(u)[j] = u[j + 1] BY <1>3 DEF Shorter
    <3> QED BY <1>1, <1>3, <3>1 DEF QueuesFit, InTurn
  <2>3. \A i \in DOMAIN d : IsAck(d[i]) => d[i].id < m.id BY <1>1, <1>3 DEF QueuesFit, Answered
  <2> QED BY <1>2, <1>5, <2>1, <2>2, <2>3, ToldDown
<1>7. Shaped(t, r, Tail(u), Append(d, m), h) BY <1>1, <1>2, <1>3 DEF Shaped
<1>8. \A i \in DOMAIN Append(d, m) : Truthful(e, lg, Append(d, m)[i])
  <2>1. \A i \in DOMAIN Append(d, m) : (i \in DOMAIN d /\ Append(d, m)[i] = d[i]) \/ Append(d, m)[i] = m BY <1>2 DEF Longer
  <2> QED BY <1>1, <2>1
<1>9. Continues(t, r, Append(d, m)) BY <1>1, <1>2, ToldContinues
<1>10. Kept(e, lg, t, Tail(u), Append(d, m), h)
  <2>1. CASE IsAck(m) BY <1>1, <1>2, <1>3, <2>1, KeptAnswered
  <2>2. CASE ~ IsAck(m) BY <1>1, <1>2, <1>3, <1>4, <2>2, KeptRefused
  <2> QED BY <2>1, <2>2
<1>11. Unplugged(t, r, Tail(u), Append(d, m)) BY <1>1 DEF Unplugged
<1> QED BY <1>1, <1>6, <1>7, <1>8, <1>9, <1>10, <1>11 DEF ClientFits

\* The server has told the tab something it was not asked for.
LEMMA ClientTold ==
  ASSUME NEW e, NEW lg, NEW t, NEW s, NEW u, NEW d, NEW h, NEW m \in Downward, NEW r \in SocketRow,
         ClientFits(e, lg, t, s, u, d, h), s.open, IsState(m), m.type # "hello", ~ m.committed, Truthful(e, lg, m),
         m.from # 0 => m.epoch = s.epoch /\ m.from = s.sequence,
         r.open => r.epoch = m.epoch /\ r.sequence = m.sequence, Followed(e, lg, r)
  PROVE  ClientFits(e, lg, t, r, u, Append(d, m), h)
<1>1. Shaped(t, s, u, d, h) /\ TabFits(e, t, h) /\ QueuesFit(t, u, d) /\ Unplugged(t, s, u, d) /\ Continues(t, s, d)
      /\ (\A i \in DOMAIN d : Truthful(e, lg, d[i])) /\ Seen(e, lg, t) /\ Kept(e, lg, t, u, d, h)
  BY DEF ClientFits
<1>2. Append(d, m) \in Seq(Downward) /\ Longer(d, m, Append(d, m)) BY <1>1, LongerOf DEF Shaped
<1>3. ~ IsAck(m) BY DEF IsAck
<1>4. QueuesFit(t, u, Append(d, m)) BY <1>1, <1>2, <1>3, ToldDown
<1>5. Shaped(t, r, u, Append(d, m), h) BY <1>1, <1>2 DEF Shaped
<1>6. \A i \in DOMAIN Append(d, m) : Truthful(e, lg, Append(d, m)[i])
  <2>1. \A i \in DOMAIN Append(d, m) : (i \in DOMAIN d /\ Append(d, m)[i] = d[i]) \/ Append(d, m)[i] = m BY <1>2 DEF Longer
  <2> QED BY <1>1, <2>1
<1>7. Continues(t, r, Append(d, m)) BY <1>1, <1>2, ToldContinues
<1>8. Kept(e, lg, t, u, Append(d, m), h) BY <1>1, <1>2, <1>3, KeptTold
<1>9. Unplugged(t, r, u, Append(d, m)) BY <1>1 DEF Unplugged
<1> QED BY <1>1, <1>4, <1>5, <1>6, <1>7, <1>8, <1>9 DEF ClientFits

----------------
(* What the provider sends.                                                   *)

Asked(b)               == [b EXCEPT !.request = @ + 1, !.inFlight = @ \cup {<<b.request + 1, b.revision>>}]
Request(b, type, state) == [type |-> type, id |-> b.request + 1, epoch |-> b.epoch, state |-> state]

LEMMA AskedFields ==
  ASSUME NEW b \in TabRow
  PROVE  /\ Asked(b).request = b.request + 1 /\ Asked(b).inFlight = b.inFlight \cup {<<b.request + 1, b.revision>>}
         /\ Asked(b).epoch = b.epoch /\ Asked(b).sequence = b.sequence /\ Asked(b).initialized = b.initialized
         /\ Asked(b).doc = b.doc /\ Asked(b).status = b.status /\ Asked(b).revision = b.revision
         /\ Asked(b).updates = b.updates /\ Asked(b).saved = b.saved /\ Asked(b).canSend = b.canSend
BY DEF Asked, TabRow

LEMMA AskedTab ==
  ASSUME NEW e, NEW k, NEW b \in TabRow, TabFits(e, b, k)
  PROVE  Asked(b) \in TabRow /\ TabFits(e, Asked(b), k)
<1>1. b.request \in Nat /\ b.revision \in Nat /\ b.inFlight \in SUBSET (Nat \X Nat) BY DEF TabRow
<1>2. Asked(b) \in TabRow
  <2>1. PICK more : more = b.inFlight \cup {<<b.request + 1, b.revision>>} OBVIOUS
  <2>2. more \in SUBSET (Nat \X Nat) BY <1>1, <2>1
  <2>3. PICK next \in Nat : next = b.request + 1 BY <1>1
  <2>4. Asked(b) = [b EXCEPT !.request = next, !.inFlight = more] BY <2>1, <2>3 DEF Asked, TabRow
  <2> QED BY <2>2, <2>4 DEF TabRow
<1>3. /\ Asked(b).request = b.request + 1 /\ Asked(b).inFlight = b.inFlight \cup {<<b.request + 1, b.revision>>}
      /\ Asked(b).epoch = b.epoch /\ Asked(b).sequence = b.sequence /\ Asked(b).initialized = b.initialized
      /\ Asked(b).doc = b.doc /\ Asked(b).status = b.status /\ Asked(b).revision = b.revision
      /\ Asked(b).updates = b.updates /\ Asked(b).saved = b.saved /\ Asked(b).canSend = b.canSend
  BY AskedFields
<1>4. \A f \in b.inFlight : f \in Nat \X Nat /\ f[1] <= b.request /\ f[2] <= b.revision BY <1>1 DEF TabFits
<1>5. \A f \in Asked(b).inFlight : f[1] <= Asked(b).request /\ f[2] <= Asked(b).revision
  <2> SUFFICES ASSUME NEW f \in Asked(b).inFlight PROVE f[1] <= b.request + 1 /\ f[2] <= b.revision
    BY <1>3
  <2>1. f \in b.inFlight \/ f = <<b.request + 1, b.revision>> BY <1>3
  <2> QED BY <1>1, <1>4, <2>1
<1>6. \A f, g \in Asked(b).inFlight : f[1] = g[1] => f = g
  <2> SUFFICES ASSUME NEW f \in Asked(b).inFlight, NEW g \in Asked(b).inFlight, f[1] = g[1] PROVE f = g
    OBVIOUS
  <2>1. f \in b.inFlight \/ f = <<b.request + 1, b.revision>> BY <1>3
  <2>2. g \in b.inFlight \/ g = <<b.request + 1, b.revision>> BY <1>3
  <2>3. CASE f \in b.inFlight /\ g \in b.inFlight BY <2>3 DEF TabFits
  <2>4. CASE f \in b.inFlight /\ g = <<b.request + 1, b.revision>> BY <1>1, <1>4, <2>4
  <2>5. CASE g \in b.inFlight /\ f = <<b.request + 1, b.revision>> BY <1>1, <1>4, <2>5
  <2> QED BY <2>1, <2>2, <2>3, <2>4, <2>5
<1>7. TabFits(e, Asked(b), k)
  <2> HIDE DEF Asked
  <2> QED BY <1>3, <1>5, <1>6 DEF TabFits
<1> QED BY <1>2, <1>7

\* The tab t, of which b is left, sends a request.
LEMMA ClientSends ==
  ASSUME NEW e, NEW lg, NEW t, NEW s, NEW u, NEW d, NEW h, NEW b \in TabRow, NEW k \in Seq(State),
         NEW type \in {"update", "seed"}, NEW state \in State,
         ClientFits(e, lg, t, s, u, d, h), \A i \in DOMAIN d : d[i].type # "hello",
         TabFits(e, b, k), b.status = t.status, b.status # "disconnected", b.epoch = t.epoch, b.epoch # 0,
         b.sequence = t.sequence, b.initialized = t.initialized, b.doc = t.doc, b.request = t.request,
         \A i \in DOMAIN u : \E f \in b.inFlight : f[1] = u[i].id,
         type = "seed" => Starts(state) # {},
         Kept(e, lg, Asked(b), Append(u, Request(b, type, state)), d, k)
  PROVE  ClientFits(e, lg, Asked(b), s, Append(u, Request(b, type, state)), d, k)
<1> DEFINE x == Request(b, type, state)
<1>1. /\ Asked(b) \in TabRow /\ TabFits(e, Asked(b), k)
      /\ Asked(b).request = b.request + 1 /\ Asked(b).inFlight = b.inFlight \cup {<<b.request + 1, b.revision>>}
      /\ Asked(b).epoch = b.epoch /\ Asked(b).sequence = b.sequence /\ Asked(b).initialized = b.initialized
      /\ Asked(b).doc = b.doc /\ Asked(b).status = b.status
  <2>1. Asked(b) \in TabRow BY AskedTab
  <2>2. TabFits(e, Asked(b), k) BY AskedTab
  <2> QED BY <2>1, <2>2, AskedFields
<1>2. b.request \in Nat /\ b.revision \in Nat /\ b.epoch \in Nat BY DEF TabRow
<1>3. x \in Upward /\ x.id = b.request + 1 /\ x.epoch = b.epoch /\ x.type = type /\ x.state = state
  BY <1>2 DEF Request, Upward
<1>4. \E f \in Asked(b).inFlight : f[1] = x.id
  <2>1. <<b.request + 1, b.revision>>[1] = x.id BY <1>3
  <2> QED BY <1>1, <2>1
<1>5. Asks(t, u, x, Asked(b)) BY <1>1, <1>3, <1>4 DEF Asks
<1> HIDE DEF x
<1>6. Kept(e, lg, Asked(b), Append(u, x), d, k) BY DEF x
<1>7. ClientFits(e, lg, Asked(b), s, Append(u, x), d, k)
  <2>1. /\ Asked(b).status = t.status /\ Asked(b).status # "disconnected" /\ Asked(b).sequence = t.sequence
        /\ Asked(b).initialized = t.initialized /\ Asked(b).doc = t.doc
    BY <1>1
  <2> QED BY <1>1, <1>3, <1>5, <1>6, <2>1, ClientAsks
<1> QED BY <1>7 DEF x

\* Flushing sends what waits; what waited is then on its way.
LEMMA ClientFlushes ==
  ASSUME NEW e, NEW lg \in Seq(State), NEW t, NEW s, NEW u, NEW d, NEW h, ClientFits(e, lg, t, s, u, d, h), t.canSend
  PROVE  LET b == [t EXCEPT !.timer = FALSE, !.updates = Empty]
         IN  ClientFits(e, lg, Asked(b), s, Append(u, Request(b, "update", t.updates)), d, h)
<1> DEFINE b == [t EXCEPT !.timer = FALSE, !.updates = Empty]
           x == Request(b, "update", t.updates)
<1>1. Shaped(t, s, u, d, h) /\ TabFits(e, t, h) /\ QueuesFit(t, u, d) /\ Kept(e, lg, t, u, d, h) BY DEF ClientFits
<1>2. t \in TabRow /\ t.updates \in State /\ h \in Seq(State) BY <1>1 DEF Shaped, TabRow
<1>3. t.status = "connected" /\ t.initialized /\ t.epoch # 0 BY <1>1 DEF TabFits
<1>4. /\ b.status = t.status /\ b.doc = t.doc /\ b.epoch = t.epoch /\ b.sequence = t.sequence /\ b.canSend = t.canSend
      /\ b.initialized = t.initialized /\ b.updates = Empty /\ b.revision = t.revision /\ b.saved = t.saved
      /\ b.request = t.request /\ b.inFlight = t.inFlight
  BY <1>2 DEF TabRow
<1>5. b \in TabRow BY <1>2, StateFacts DEF TabRow
<1>6. t.request \in Nat /\ t.inFlight \in SUBSET (Nat \X Nat) BY <1>2 DEF TabRow
<1> HIDE DEF b
<1>7. TabFits(e, b, h) BY <1>1, <1>4 DEF TabFits
<1>8. \A i \in DOMAIN d : d[i].type # "hello" BY <1>1, <1>3 DEF QueuesFit, HelloFirst
<1>9. \A i \in DOMAIN u : \E f \in b.inFlight : f[1] = u[i].id BY <1>1, <1>4 DEF QueuesFit, Requested
<1>10. /\ Asked(b).inFlight = b.inFlight \cup {<<b.request + 1, b.revision>>} /\ Asked(b).epoch = b.epoch
       /\ Asked(b).revision = b.revision
  BY <1>5, AskedFields
<1>11. x \in Upward /\ x.id = t.request + 1 /\ x.state = t.updates
  <2>1. b.request \in Nat /\ b.epoch \in Nat BY <1>5 DEF TabRow
  <2> QED BY <1>2, <1>4, <2>1 DEF Request, Upward
<1> HIDE DEF x
<1>12. Longer(u, x, Append(u, x)) BY <1>1, <1>11, LongerOf DEF Shaped
<1>13. Kept(e, lg, Asked(b), Append(u, x), d, h)
  <2>1. t.inFlight \subseteq Asked(b).inFlight BY <1>4, <1>10
  <2>2. \A f \in t.inFlight : f[1] # x.id
    <3> SUFFICES ASSUME NEW f \in t.inFlight PROVE f[1] # t.request + 1 BY <1>11
    <3>1. f[1] <= t.request /\ f[1] \in Nat BY <1>1, <1>6 DEF TabFits
    <3> QED BY <1>6, <3>1
  <2>3. ASSUME Asked(b).epoch = e, ~ Orphaned(t, u, d), NEW n \in 1 .. Asked(b).revision
        PROVE  Arrives(lg, Append(u, x), Empty, h[n])
    <3>1. Accounted(lg, t, u, h) BY <1>1, <1>4, <1>10, <2>3 DEF Kept
    <3>2. Arrives(lg, u, x.state, h[n]) BY <1>4, <1>10, <1>11, <3>1 DEF Accounted
    <3> QED BY <1>12, <3>2, ArrivesFlushed
  <2> QED BY <1>12, <2>1, <2>2, <2>3, KeptAsked
<1>14. ClientFits(e, lg, Asked(b), s, Append(u, Request(b, "update", t.updates)), d, h)
  <2>1. Kept(e, lg, Asked(b), Append(u, Request(b, "update", t.updates)), d, h) BY <1>13 DEF x
  <2>2. b.status # "disconnected" /\ b.epoch # 0 BY <1>3, <1>4
  <2> QED BY <1>2, <1>4, <1>5, <1>7, <1>8, <1>9, <2>1, <2>2, ClientSends
<1> QED BY <1>14 DEF b

----------------
(* What the provider does with a message.                                     *)

\* A message that has no state changes nothing but the queue.
LEMMA ClientSkips ==
  ASSUME NEW e, NEW lg, NEW t, NEW s, NEW u, NEW d, NEW h, ClientFits(e, lg, t, s, u, d, h), d # <<>>,
         t.status \in {"syncing", "connected"}, ~ IsState(d[1])
  PROVE  ClientFits(e, lg, t, s, u, Tail(d), h) /\ \A i \in DOMAIN Tail(d) : Tail(d)[i].type # "hello"
<1>1. t \in TabRow /\ TabFits(e, t, h) /\ Seen(e, lg, t) BY DEF ClientFits, Shaped
<1>2. \A f \in t.inFlight : f \in t.inFlight \/ (IsAck(d[1]) /\ d[1].id = f[1]) OBVIOUS
<1>3. t.status # "disconnected" OBVIOUS
<1> QED BY <1>1, <1>2, <1>3, ClientTakes

\* The tab stops: with an error or in conflict with a new epoch.
LEMMA ClientStops ==
  ASSUME NEW e, NEW lg, NEW t, NEW s, NEW u, NEW d, NEW h, ClientFits(e, lg, t, s, u, d, h), d # <<>>,
         NEW status \in Stopped
  PROVE  ClientFits(e, lg, [t EXCEPT !.status = status, !.canSend = FALSE], s, u, Tail(d), h)
<1> DEFINE r == [t EXCEPT !.status = status, !.canSend = FALSE]
<1>1. t \in TabRow /\ TabFits(e, t, h) /\ Seen(e, lg, t) BY DEF ClientFits, Shaped
<1>2. /\ r.status = status /\ r.doc = t.doc /\ r.epoch = t.epoch /\ r.sequence = t.sequence /\ ~ r.canSend
      /\ r.initialized = t.initialized /\ r.updates = t.updates /\ r.revision = t.revision /\ r.saved = t.saved
      /\ r.request = t.request /\ r.inFlight = t.inFlight
  BY <1>1 DEF TabRow
<1>3. r \in TabRow BY <1>1 DEF TabRow, Status, Stopped
<1> HIDE DEF r
<1>4. r.status \notin {"syncing", "connected", "disconnected"} BY <1>2 DEF Stopped
<1>5. TabFits(e, r, h) BY <1>1, <1>2, <1>4 DEF TabFits
<1>6. Seen(e, lg, r) BY <1>1, <1>2 DEF Seen
<1>7. \A n \in 1 .. t.revision : Sent(r, n) => Sent(t, n) BY <1>2 DEF Sent
<1>8. \A f \in t.inFlight : f \in r.inFlight \/ (IsAck(d[1]) /\ d[1].id = f[1]) BY <1>2
<1>9. ClientFits(e, lg, r, s, u, Tail(d), h) BY <1>2, <1>3, <1>4, <1>5, <1>6, <1>7, <1>8, ClientTakes
<1> QED BY <1>9 DEF r

\* The committed state of an acknowledgement counts even when the epoch has ended.
LEMMA ClientStopsAcknowledged ==
  ASSUME NEW e, NEW lg, NEW t, NEW s, NEW u, NEW d, NEW h, ClientFits(e, lg, t, s, u, d, h), d # <<>>,
         NEW status \in Stopped, IsAck(d[1])
  PROVE  ClientFits(e, lg, [Acknowledged(t, d[1]) EXCEPT !.status = status, !.canSend = FALSE], s, u, Tail(d), h)
<1> DEFINE q == Acknowledged(t, d[1])
           r == [q EXCEPT !.status = status, !.canSend = FALSE]
<1>1. t \in TabRow /\ TabFits(e, t, h) /\ Seen(e, lg, t) BY DEF ClientFits, Shaped
<1>2. /\ \A f \in t.inFlight : f[2] <= t.revision
      /\ t.saved <= t.revision /\ t.inFlight \in SUBSET (Nat \X Nat) /\ t.revision \in Nat
  BY <1>1 DEF TabFits, TabRow
<1>3. /\ q = [t EXCEPT !.saved = q.saved, !.inFlight = {f \in t.inFlight : f[1] # d[1].id}]
      /\ q.saved \in Nat /\ q.saved <= t.revision
      /\ \A n \in Nat : Sent(q, n) => Sent(t, n)
  BY <1>1, <1>2, AcknowledgedTab
<1>4. PICK saved \in Nat : saved = q.saved BY <1>3
<1>5. PICK flying \in SUBSET (Nat \X Nat) : flying = {f \in t.inFlight : f[1] # d[1].id} BY <1>2
<1>6. q = [t EXCEPT !.saved = saved, !.inFlight = flying] BY <1>3, <1>4, <1>5
<1>7. q.inFlight = flying BY <1>1, <1>6 DEF TabRow
<1> HIDE DEF q
<1>8. /\ r.status = status /\ r.doc = t.doc /\ r.epoch = t.epoch /\ r.sequence = t.sequence /\ ~ r.canSend
      /\ r.initialized = t.initialized /\ r.updates = t.updates /\ r.revision = t.revision /\ r.saved = saved
      /\ r.request = t.request /\ r.inFlight = flying
  BY <1>1, <1>6 DEF TabRow
<1>9. r \in TabRow BY <1>1, <1>6 DEF TabRow, Status, Stopped
<1> HIDE DEF r
<1>10. r.status \notin {"syncing", "connected", "disconnected"} BY <1>8 DEF Stopped
<1>11. TabFits(e, r, h) BY <1>1, <1>3, <1>4, <1>5, <1>8, <1>10 DEF TabFits
<1>12. Seen(e, lg, r) BY <1>1, <1>8 DEF Seen
<1>13. \A n \in 1 .. t.revision : Sent(r, n) => Sent(t, n)
  <2> SUFFICES ASSUME NEW n \in 1 .. t.revision, Sent(r, n) PROVE Sent(t, n)
    OBVIOUS
  <2>1. Sent(q, n) BY <1>4, <1>7, <1>8 DEF Sent
  <2> QED BY <1>2, <1>3, <2>1
<1>14. \A f \in t.inFlight : f \in r.inFlight \/ (IsAck(d[1]) /\ d[1].id = f[1]) BY <1>5, <1>8
<1>15. ClientFits(e, lg, r, s, u, Tail(d), h) BY <1>8, <1>9, <1>10, <1>11, <1>12, <1>13, <1>14, ClientTakes
<1> QED BY <1>15 DEF r, q

LEMMA SyncedTab ==
  ASSUME NEW t \in TabRow, NEW m \in AnswerRow, \A f \in t.inFlight : f[2] <= t.revision, t.saved <= t.revision
  PROVE  LET r == Synced(t, m)
         IN  /\ r \in TabRow
             /\ r.status = "connected" /\ r.doc = Merge(t.doc, m.state) /\ r.epoch = m.epoch /\ r.sequence = m.sequence
             /\ r.initialized /\ r.updates = t.updates /\ r.revision = t.revision /\ r.request = t.request
             /\ r.saved <= t.revision /\ \A n \in Nat : Sent(r, n) => Sent(t, n)
             /\ r.inFlight \subseteq t.inFlight
             /\ \A f \in t.inFlight : f \in r.inFlight \/ (m.type = "ack" /\ m.id = f[1])
             /\ m.type = "ack" => \A f \in r.inFlight : f[1] # m.id
<1> DEFINE u == [Noted(t, m) EXCEPT !.doc = Merge(@, m.state), !.initialized = TRUE,
                               !.canSend = m.canWrite, !.seeding = FALSE, !.status = "connected"]
<1>1. Merge(t.doc, m.state) \in State BY StateFacts DEF TabRow, AnswerRow
<1>2. PICK doc \in State : doc = Merge(t.doc, m.state) BY <1>1
<1>3. m.epoch \in Nat /\ m.sequence \in Nat /\ m.canWrite \in BOOLEAN BY DEF AnswerRow
<1>4. u = [t EXCEPT !.epoch = m.epoch, !.sequence = m.sequence, !.canWrite = m.canWrite, !.doc = doc,
                    !.initialized = TRUE, !.canSend = m.canWrite, !.seeding = FALSE, !.status = "connected"]
  BY <1>2 DEF Noted, TabRow
<1>5. u \in TabRow
  <2>1. t \in TabRow /\ "connected" \in Status BY DEF Status
  <2> HIDE DEF u
  <2> QED BY ONLY <1>2, <1>3, <1>4, <2>1, ZenonT(40) DEF TabRow
<1>6. /\ u.status = "connected" /\ u.doc = doc /\ u.epoch = m.epoch /\ u.sequence = m.sequence
      /\ u.initialized /\ u.updates = t.updates /\ u.revision = t.revision /\ u.request = t.request
      /\ u.saved = t.saved /\ u.inFlight = t.inFlight
  BY <1>4 DEF TabRow
<1>7. Synced(t, m) = IF m.type = "ack" THEN Acknowledged(u, m) ELSE u BY DEF Synced
<1> HIDE DEF u
<1>8. \A n \in Nat : Sent(u, n) => Sent(t, n) BY <1>6 DEF Sent
<1>9. CASE m.type = "ack"
  <2> DEFINE r == Acknowledged(u, m)
  <2>1. /\ r = [u EXCEPT !.saved = r.saved, !.inFlight = {f \in u.inFlight : f[1] # m.id}]
        /\ r.saved \in Nat /\ r.saved <= u.revision
        /\ \A n \in Nat : Sent(r, n) => Sent(u, n)
    BY <1>5, <1>6, AcknowledgedTab
  <2>2. PICK saved \in Nat : saved = r.saved BY <2>1
  <2>3. t.inFlight \in SUBSET (Nat \X Nat) BY DEF TabRow
  <2>4. PICK flying \in SUBSET (Nat \X Nat) : flying = {f \in t.inFlight : f[1] # m.id} BY <2>3
  <2>5. r = [u EXCEPT !.saved = saved, !.inFlight = flying] BY <1>6, <2>1, <2>2, <2>4
  <2>6. Synced(t, m) = r BY <1>7, <1>9
  <2> HIDE DEF r
  <2>7. r \in TabRow BY <1>5, <2>5 DEF TabRow
  <2>8. /\ r.status = u.status /\ r.doc = u.doc /\ r.epoch = u.epoch /\ r.sequence = u.sequence
        /\ r.initialized = u.initialized /\ r.updates = u.updates /\ r.revision = u.revision /\ r.request = u.request
        /\ r.inFlight = flying
    BY <1>5, <2>5 DEF TabRow
  <2>9. /\ flying \subseteq t.inFlight
        /\ \A f \in t.inFlight : f \in flying \/ (m.type = "ack" /\ m.id = f[1])
        /\ \A f \in flying : f[1] # m.id
    BY <1>9, <2>4
  <2>10. r.saved <= t.revision /\ \A n \in Nat : Sent(r, n) => Sent(t, n) BY <1>6, <1>8, <2>1
  <2> QED BY <1>2, <1>6, <2>6, <2>7, <2>8, <2>9, <2>10
<1>10. CASE m.type # "ack"
  <2>1. Synced(t, m) = u BY <1>7, <1>10
  <2> QED BY <1>2, <1>5, <1>6, <1>8, <1>10, <2>1
<1> QED BY <1>9, <1>10

\* A state that is taken in: what the tab shows holds what the server had.
LEMMA ClientSyncs ==
  ASSUME NEW e \in Nat, NEW lg \in Seq(State), NEW t, NEW s, NEW u, NEW d, NEW h, ClientFits(e, lg, t, s, u, d, h), d # <<>>,
         t.status \in {"syncing", "connected"}, IsState(d[1]), d[1].type # "reset", t.epoch \in {0, d[1].epoch},
         d[1].sequence > 0
  PROVE  ClientFits(e, lg, Synced(t, d[1]), s, u, Tail(d), h) /\ \A i \in DOMAIN Tail(d) : Tail(d)[i].type # "hello"
<1> DEFINE m == d[1]
           r == Synced(t, m)
<1>1. Shaped(t, s, u, d, h) /\ TabFits(e, t, h) /\ Seen(e, lg, t) /\ Continues(t, s, d) /\ QueuesFit(t, u, d)
      /\ (\A i \in DOMAIN d : Truthful(e, lg, d[i]))
  BY DEF ClientFits
<1>2. 1 \in DOMAIN d /\ (\A i \in DOMAIN d : d[i] \in Downward) /\ DOMAIN u # {} => u # <<>> BY <1>1, QueueRows
<1>3. 1 \in DOMAIN d /\ m \in Downward BY <1>1, QueueRows
<1>4. m \in AnswerRow BY <1>3 DEF Downward, ErrorRow, IsState, StateType
<1>5. m.epoch \in Nat /\ m.sequence \in Nat /\ m.from \in Nat /\ m.state \in State /\ m.type \in StateType BY <1>4 DEF AnswerRow
<1>6. t \in TabRow /\ t.doc \in State /\ t.epoch \in Nat /\ t.sequence \in Nat /\ t.revision \in Nat /\ h \in Seq(State)
  BY <1>1 DEF Shaped, TabRow
<1>7. Truthful(e, lg, m) BY <1>1, <1>3
<1>8. /\ r \in TabRow
      /\ r.status = "connected" /\ r.doc = Merge(t.doc, m.state) /\ r.epoch = m.epoch /\ r.sequence = m.sequence
      /\ r.initialized /\ r.updates = t.updates /\ r.revision = t.revision /\ r.request = t.request
      /\ r.saved <= t.revision /\ (\A n \in Nat : Sent(r, n) => Sent(t, n))
      /\ r.inFlight \subseteq t.inFlight
      /\ \A f \in t.inFlight : f \in r.inFlight \/ (m.type = "ack" /\ m.id = f[1])
  <2>1. (\A f \in t.inFlight : f[2] <= t.revision) /\ t.saved <= t.revision BY <1>1 DEF TabFits
  <2> QED BY <1>4, <1>6, <2>1, SyncedTab
<1>9. /\ m.epoch <= e /\ m.epoch # 0 /\ (m.type = "ack" => m.committed) BY <1>7 DEF Truthful
<1>10. Merge(t.doc, m.state) \in State /\ Holds(Merge(t.doc, m.state), t.doc) /\ Holds(Merge(t.doc, m.state), m.state)
       /\ (Starts(t.doc) # {} => Starts(Merge(t.doc, m.state)) # {})
       /\ (Starts(m.state) # {} => Starts(Merge(t.doc, m.state)) # {})
  BY <1>5, <1>6, StateFacts
<1> HIDE DEF r
<1>11. m.from # 0 => t.epoch = m.epoch /\ t.sequence = m.from /\ t.initialized
  <2> SUFFICES ASSUME m.from # 0 PROVE t.epoch = m.epoch /\ t.sequence = m.from /\ t.initialized
    OBVIOUS
  <2>1. Reached(t, d, 1, m.epoch, m.from) BY <1>1, <1>3 DEF Continues
  <2>2. \A k \in DOMAIN d : k < 1 => ~ IsState(d[k]) BY <1>1 DEF Shaped
  <2> QED BY <2>1, <2>2 DEF Reached
<1>12. Starts(r.doc) # {}
  <2>1. CASE m.from = 0 BY <1>7, <1>8, <1>10, <2>1 DEF Truthful
  <2>2. CASE m.from # 0 BY <1>1, <1>8, <1>10, <1>11, <2>2 DEF TabFits
  <2> QED BY <2>1, <2>2
<1>13. TabFits(e, r, h)
  <2>1. \A n \in 1 .. r.revision : Holds(r.doc, h[n])
    <3> SUFFICES ASSUME NEW n \in 1 .. t.revision PROVE Holds(r.doc, h[n]) BY <1>8
    <3>1. Holds(t.doc, h[n]) /\ Len(h) = t.revision BY <1>1 DEF TabFits
    <3>2. h[n] \in State BY <1>6, <3>1
    <3> QED BY <1>6, <1>8, <1>10, <3>1, <3>2, HoldsAll
  <2>2. \A f \in r.inFlight : f \in t.inFlight BY <1>8
  <2>3. Len(h) = t.revision /\ (\A f \in t.inFlight : f[1] <= t.request /\ f[2] <= t.revision)
        /\ (\A f, g \in t.inFlight : f[1] = g[1] => f = g)
    BY <1>1 DEF TabFits
  <2> QED BY <1>8, <1>9, <1>12, <2>1, <2>2, <2>3 DEF TabFits
<1>14. Seen(e, lg, r)
  <2> SUFFICES ASSUME m.epoch = e PROVE m.sequence \in DOMAIN lg /\ Holds(r.doc, lg[m.sequence])
    BY <1>8 DEF Seen
  <2>1. m.sequence \in DOMAIN lg BY <1>7 DEF Truthful
  <2>2. lg[m.sequence] \in State BY <2>1
  <2>3. CASE m.from = 0
    <3>1. Holds(m.state, lg[m.sequence]) BY <1>7, <2>3 DEF Truthful
    <3> QED BY <1>5, <1>8, <1>10, <2>1, <2>2, <3>1, HoldsAll
  <2>4. CASE m.from # 0
    <3>1. m.from \in DOMAIN lg /\ Holds(Merge(lg[m.from], m.state), lg[m.sequence]) BY <1>7, <2>4 DEF Truthful
    <3>2. Holds(t.doc, lg[m.from]) BY <1>1, <1>5, <1>11, <2>4 DEF Seen
    <3>3. Holds(Merge(t.doc, m.state), lg[m.sequence]) BY <3>1, <3>2 DEF Holds, Merge
    <3> QED BY <1>8, <2>1, <3>3
  <2> QED BY <2>3, <2>4
<1>15. \A f \in t.inFlight : f \in r.inFlight \/ (IsAck(d[1]) /\ d[1].id = f[1]) BY <1>8, <1>9 DEF IsAck
<1>16. u # <<>> => r.epoch = t.epoch
  <2> SUFFICES ASSUME u # <<>> PROVE t.epoch = m.epoch BY <1>8
  <2>1. 1 \in DOMAIN u BY <1>1, QueueRows
  <2>2. t.epoch # 0 BY <1>1, <2>1 DEF QueuesFit, Requested
  <2> QED BY <2>2
<1>17. r.epoch = e => t.epoch = e \/ t.revision = 0
  <2>1. t.epoch = 0 => t.revision = 0 BY <1>1 DEF TabFits
  <2> QED BY <1>8, <2>1
<1>18. \A n \in 1 .. t.revision : Sent(r, n) => Sent(t, n) BY <1>6, <1>8
<1>19. r.status # "disconnected" /\ r.request = t.request /\ r.revision = t.revision /\ r.updates = t.updates
       /\ (r.status \in {"syncing", "connected"} =>
           /\ t.status \in {"syncing", "connected"}
           /\ ~ IsState(d[1]) => r.epoch = t.epoch /\ r.sequence = t.sequence /\ r.initialized = t.initialized
           /\ IsState(d[1]) => /\ r.epoch = d[1].epoch /\ r.sequence = d[1].sequence
                               /\ r.sequence # 0 => r.initialized)
  BY <1>8
<1>20. ClientFits(e, lg, r, s, u, Tail(d), h) /\ \A i \in DOMAIN Tail(d) : Tail(d)[i].type # "hello"
  BY <1>8, <1>13, <1>14, <1>15, <1>16, <1>17, <1>18, <1>19, ClientTakes
<1> QED BY <1>20 DEF r

\* A document that has not been started: the tab notes where it is.
NotedAs(t, m, r) ==
  /\ r \in TabRow /\ r.status = t.status /\ r.epoch = m.epoch /\ r.sequence = 0 /\ r.canSend = t.canSend
  /\ r.initialized = t.initialized /\ r.updates = t.updates /\ r.revision = t.revision /\ r.saved = t.saved
  /\ r.request = t.request /\ r.inFlight = t.inFlight
  /\ Holds(r.doc, t.doc) /\ (Starts(t.doc) # {} => Starts(r.doc) # {}) /\ (Starts(r.doc) = {} => r.doc.blocks = {})

LEMMA ClientNotes ==
  ASSUME NEW e \in Nat, NEW lg \in Seq(State), NEW t, NEW s, NEW u, NEW d, NEW h, ClientFits(e, lg, t, s, u, d, h), d # <<>>,
         t.status \in {"syncing", "connected"}, IsState(d[1]), t.epoch \in {0, d[1].epoch}, d[1].sequence = 0,
         NEW r, NotedAs(t, d[1], r)
  PROVE  ClientFits(e, lg, r, s, u, Tail(d), h) /\ \A i \in DOMAIN Tail(d) : Tail(d)[i].type # "hello"
<1> DEFINE m == d[1]
<1>1. Shaped(t, s, u, d, h) /\ TabFits(e, t, h) /\ QueuesFit(t, u, d) /\ (\A i \in DOMAIN d : Truthful(e, lg, d[i]))
  BY DEF ClientFits
<1>2. 1 \in DOMAIN d BY <1>1, QueueRows
<1>3. Truthful(e, lg, m) BY <1>1, <1>2
<1>4. m.epoch <= e /\ m.epoch # 0 BY <1>3 DEF Truthful
<1>5. t \in TabRow /\ t.doc \in State /\ t.revision \in Nat /\ h \in Seq(State) /\ r.doc \in State /\ r \in TabRow
  BY <1>1 DEF Shaped, TabRow, NotedAs
<1>6. /\ r.status = t.status /\ r.epoch = m.epoch /\ r.sequence = 0 /\ r.canSend = t.canSend
      /\ r.initialized = t.initialized /\ r.updates = t.updates /\ r.revision = t.revision /\ r.saved = t.saved
      /\ r.request = t.request /\ r.inFlight = t.inFlight
      /\ Holds(r.doc, t.doc) /\ (Starts(t.doc) # {} => Starts(r.doc) # {}) /\ (Starts(r.doc) = {} => r.doc.blocks = {})
  BY DEF NotedAs
<1>7. TabFits(e, r, h)
  <2>1. \A n \in 1 .. r.revision : Holds(r.doc, h[n])
    <3> SUFFICES ASSUME NEW n \in 1 .. t.revision PROVE Holds(r.doc, h[n]) BY <1>6
    <3>1. Holds(t.doc, h[n]) /\ Len(h) = t.revision BY <1>1 DEF TabFits
    <3>2. h[n] \in State BY <1>5, <3>1
    <3> QED BY <1>5, <1>6, <3>1, <3>2, HoldsAll
  <2> QED BY <1>1, <1>4, <1>6, <2>1 DEF TabFits
<1>8. Seen(e, lg, r) BY <1>6 DEF Seen
<1>9. u # <<>> => r.epoch = t.epoch
  <2> SUFFICES ASSUME u # <<>> PROVE t.epoch = m.epoch BY <1>6
  <2>1. 1 \in DOMAIN u BY <1>1, QueueRows
  <2>2. t.epoch # 0 BY <1>1, <2>1 DEF QueuesFit, Requested
  <2> QED BY <2>2
<1>10. r.epoch = e => t.epoch = e \/ t.revision = 0
  <2>1. t.epoch = 0 => t.revision = 0 BY <1>1 DEF TabFits
  <2> QED BY <1>6, <2>1
<1>11. \A n \in 1 .. t.revision : Sent(r, n) => Sent(t, n) BY <1>6 DEF Sent
<1>12. \A f \in t.inFlight : f \in r.inFlight \/ (IsAck(d[1]) /\ d[1].id = f[1]) BY <1>6
<1>13. r.status # "disconnected" /\ r.request = t.request /\ r.revision = t.revision /\ r.updates = t.updates
       /\ (r.status \in {"syncing", "connected"} =>
           /\ t.status \in {"syncing", "connected"}
           /\ ~ IsState(d[1]) => r.epoch = t.epoch /\ r.sequence = t.sequence /\ r.initialized = t.initialized
           /\ IsState(d[1]) => /\ r.epoch = d[1].epoch /\ r.sequence = d[1].sequence
                               /\ r.sequence # 0 => r.initialized)
  BY <1>6
<1> QED BY <1>5, <1>7, <1>8, <1>9, <1>10, <1>11, <1>12, <1>13, ClientTakes

\* A request that carries all the tab shows brings everything made by it.
LEMMA KeptCarried ==
  ASSUME NEW e, NEW lg, NEW u, NEW d, NEW k \in Seq(State), NEW b \in TabRow, TabFits(e, b, k), u \in Seq(Upward),
         NEW type \in {"update", "seed"}
  PROVE  Kept(e, lg, Asked(b), Append(u, Request(b, type, b.doc)), d, k)
<1> DEFINE x == Request(b, type, b.doc)
<1>1. b.request \in Nat /\ b.epoch \in Nat /\ b.doc \in State BY DEF TabRow
<1>2. x \in Upward /\ x.state = b.doc BY <1>1 DEF Request, Upward
<1> HIDE DEF x
<1>3. Longer(u, x, Append(u, x)) BY <1>2, LongerOf
<1>4. Asked(b).revision = b.revision BY AskedFields
<1>5. \A n \in 1 .. b.revision : Arrives(lg, Append(u, x), Empty, k[n])
  <2> SUFFICES ASSUME NEW n \in 1 .. b.revision PROVE Arrives(lg, Append(u, x), Empty, k[n])
    OBVIOUS
  <2>1. Holds(x.state, k[n]) BY <1>2 DEF TabFits
  <2> QED BY <1>3, <2>1, ArrivesCarried
<1>6. \A n \in 1 .. b.revision : Arrives(lg, Append(u, x), Asked(b).updates, k[n]) BY <1>5 DEF Arrives, Empty
<1>7. Accounted(lg, Asked(b), Append(u, x), k) BY <1>4, <1>5, <1>6 DEF Accounted
<1> QED BY <1>7 DEF Kept, x

\* After the first hello of a new connection everything is sent again.
LEMMA ClientResends ==
  ASSUME NEW e \in Nat, NEW lg \in Seq(State), NEW t, NEW s, NEW u, NEW d, NEW h, ClientFits(e, lg, t, s, u, d, h),
         \A i \in DOMAIN d : d[i].type # "hello", u = <<>>, t.status = "connected"
  PROVE  LET b == [t EXCEPT !.updates = Empty, !.inFlight = {}]
         IN  ClientFits(e, lg, Asked(b), s, Append(u, Request(b, "update", t.doc)), d, h)
<1> DEFINE b == [t EXCEPT !.updates = Empty, !.inFlight = {}]
<1>1. Shaped(t, s, u, d, h) /\ TabFits(e, t, h) BY DEF ClientFits
<1>2. t \in TabRow /\ t.doc \in State /\ h \in Seq(State) /\ u \in Seq(Upward) BY <1>1 DEF Shaped, TabRow
<1>3. t.initialized /\ t.epoch # 0 BY <1>1 DEF TabFits
<1>4. /\ b.status = t.status /\ b.doc = t.doc /\ b.epoch = t.epoch /\ b.sequence = t.sequence /\ b.canSend = t.canSend
      /\ b.initialized = t.initialized /\ b.updates = Empty /\ b.revision = t.revision /\ b.saved = t.saved
      /\ b.request = t.request /\ b.inFlight = {}
  BY <1>2 DEF TabRow
<1>5. b \in TabRow BY <1>2, StateFacts DEF TabRow
<1> HIDE DEF b
<1>6. TabFits(e, b, h) BY <1>1, <1>4 DEF TabFits
<1>7. \A i \in DOMAIN u : \E f \in b.inFlight : f[1] = u[i].id OBVIOUS
<1>8. Kept(e, lg, Asked(b), Append(u, Request(b, "update", b.doc)), d, h) BY <1>2, <1>5, <1>6, KeptCarried
<1>9. Kept(e, lg, Asked(b), Append(u, Request(b, "update", t.doc)), d, h) BY <1>4, <1>8
<1>10. b.status # "disconnected" /\ b.epoch # 0 BY <1>3, <1>4
<1>11. ClientFits(e, lg, Asked(b), s, Append(u, Request(b, "update", t.doc)), d, h)
  BY <1>2, <1>4, <1>5, <1>6, <1>7, <1>9, <1>10, ClientSends
<1> QED BY <1>11 DEF b

\* The server could not place an update: the tab sends all it has.
LEMMA ClientTriesAgain ==
  ASSUME NEW e \in Nat, NEW lg \in Seq(State), NEW t, NEW s, NEW u, NEW d, NEW h, ClientFits(e, lg, t, s, u, d, h), t.canSend
  PROVE  ClientFits(e, lg, Asked(t), s, Append(u, Request(t, "update", t.doc)), d, h)
<1>1. Shaped(t, s, u, d, h) /\ TabFits(e, t, h) /\ QueuesFit(t, u, d) BY DEF ClientFits
<1>2. t \in TabRow /\ t.doc \in State /\ h \in Seq(State) /\ u \in Seq(Upward) BY <1>1 DEF Shaped, TabRow
<1>3. t.status = "connected" /\ t.initialized /\ t.epoch # 0 BY <1>1 DEF TabFits
<1>4. \A i \in DOMAIN d : d[i].type # "hello" BY <1>1, <1>3 DEF QueuesFit, HelloFirst
<1>5. \A i \in DOMAIN u : \E f \in t.inFlight : f[1] = u[i].id BY <1>1 DEF QueuesFit, Requested
<1>6. Kept(e, lg, Asked(t), Append(u, Request(t, "update", t.doc)), d, h) BY <1>1, <1>2, KeptCarried
<1> QED BY <1>1, <1>2, <1>3, <1>4, <1>5, <1>6, ClientSends

\* The tab starts the document with what it shows.
LEMMA ClientSeeds ==
  ASSUME NEW e \in Nat, NEW lg \in Seq(State), NEW t, NEW s, NEW u, NEW d, NEW h, ClientFits(e, lg, t, s, u, d, h),
         \A i \in DOMAIN d : d[i].type # "hello", t.status # "disconnected", t.epoch # 0, Starts(t.doc) # {}
  PROVE  LET b == [t EXCEPT !.seeding = TRUE, !.revision = @ + 1]
         IN  ClientFits(e, lg, Asked(b), s, Append(u, Request(b, "seed", t.doc)), d, Append(h, t.doc))
<1> DEFINE b == [t EXCEPT !.seeding = TRUE, !.revision = @ + 1]
           k == Append(h, t.doc)
<1>1. Shaped(t, s, u, d, h) /\ TabFits(e, t, h) /\ QueuesFit(t, u, d) BY DEF ClientFits
<1>2. t \in TabRow /\ t.doc \in State /\ h \in Seq(State) /\ u \in Seq(Upward) /\ t.revision \in Nat /\ t.saved \in Nat
      /\ t.inFlight \in SUBSET (Nat \X Nat) /\ t.request \in Nat
  BY <1>1 DEF Shaped, TabRow
<1>3. PICK next \in Nat : next = t.revision + 1 BY <1>2
<1>4. /\ b.status = t.status /\ b.doc = t.doc /\ b.epoch = t.epoch /\ b.sequence = t.sequence /\ b.canSend = t.canSend
      /\ b.initialized = t.initialized /\ b.updates = t.updates /\ b.revision = next /\ b.saved = t.saved
      /\ b.request = t.request /\ b.inFlight = t.inFlight
  BY <1>2, <1>3 DEF TabRow
<1>5. b \in TabRow
  <2>1. b = [t EXCEPT !.seeding = TRUE, !.revision = next] BY <1>2, <1>3 DEF TabRow
  <2> QED BY <1>2, <2>1 DEF TabRow
<1> HIDE DEF b
<1>6. k \in Seq(State) /\ Longer(h, t.doc, k) BY <1>2, LongerOf
<1> HIDE DEF k
<1>7. TabFits(e, b, k)
  <2>1. Len(h) = t.revision /\ t.epoch <= e /\ t.saved <= t.revision
        /\ (t.canSend => t.status = "connected") /\ (t.status = "connected" => t.initialized)
        /\ (t.initialized => t.epoch # 0 /\ Starts(t.doc) # {})
    BY <1>1 DEF TabFits
  <2>2. Len(k) = next BY <1>3, <1>6, <2>1 DEF Longer
  <2>3. \A n \in 1 .. next : Holds(t.doc, k[n])
    <3> SUFFICES ASSUME NEW n \in 1 .. next PROVE Holds(t.doc, k[n])
      OBVIOUS
    <3>1. CASE n = next
      <4>1. k[n] = t.doc BY <1>3, <1>6, <2>1, <3>1 DEF Longer
      <4> QED BY <1>2, <4>1, StateFacts
    <3>2. CASE n # next
      <4>1. n \in 1 .. t.revision /\ n \in DOMAIN h BY <1>2, <1>3, <2>1, <3>2
      <4>2. k[n] = h[n] BY <1>6, <4>1 DEF Longer
      <4> QED BY <1>1, <4>1, <4>2 DEF TabFits
    <3> QED BY <3>1, <3>2
  <2>4. \A f \in t.inFlight : f[1] <= t.request /\ f[2] <= next
    <3> SUFFICES ASSUME NEW f \in t.inFlight PROVE f[1] <= t.request /\ f[2] <= next
      OBVIOUS
    <3>1. f[2] \in Nat /\ f[2] <= t.revision /\ f[1] <= t.request BY <1>1, <1>2 DEF TabFits
    <3> QED BY <1>2, <1>3, <3>1
  <2>5. \A f, g \in t.inFlight : f[1] = g[1] => f = g BY <1>1 DEF TabFits
  <2>6. t.saved <= next BY <1>2, <1>3, <2>1
  <2> QED BY <1>4, <2>1, <2>2, <2>3, <2>4, <2>5, <2>6 DEF TabFits
<1>8. \A i \in DOMAIN u : \E f \in b.inFlight : f[1] = u[i].id BY <1>1, <1>4 DEF QueuesFit, Requested
<1>9. Kept(e, lg, Asked(b), Append(u, Request(b, "seed", b.doc)), d, k) BY <1>2, <1>5, <1>6, <1>7, KeptCarried
<1>10. Kept(e, lg, Asked(b), Append(u, Request(b, "seed", t.doc)), d, k) BY <1>4, <1>9
<1>11. b.status # "disconnected" /\ b.epoch # 0 BY <1>4
<1>12. ClientFits(e, lg, Asked(b), s, Append(u, Request(b, "seed", t.doc)), d, k)
  BY <1>2, <1>4, <1>5, <1>6, <1>7, <1>8, <1>10, <1>11, ClientSends
<1> QED BY <1>12 DEF b, k

----------------
(* What the tab does by itself, and the end of a connection.                  *)

\* A tab that differs in nothing the promises speak of.
LEMMA ClientRests ==
  ASSUME NEW e, NEW lg, NEW t, NEW s, NEW u, NEW d, NEW h, ClientFits(e, lg, t, s, u, d, h)
  PROVE  ClientFits(e, lg, [t EXCEPT !.timer = FALSE], s, u, d, h)
<1> DEFINE r == [t EXCEPT !.timer = FALSE]
<1>1. Shaped(t, s, u, d, h) /\ TabFits(e, t, h) /\ QueuesFit(t, u, d) /\ Unplugged(t, s, u, d) /\ Continues(t, s, d)
      /\ (\A i \in DOMAIN d : Truthful(e, lg, d[i])) /\ Seen(e, lg, t) /\ Followed(e, lg, s) /\ Kept(e, lg, t, u, d, h)
  BY DEF ClientFits
<1>2. t \in TabRow BY <1>1 DEF Shaped
<1>3. /\ r.status = t.status /\ r.doc = t.doc /\ r.epoch = t.epoch /\ r.sequence = t.sequence /\ r.canSend = t.canSend
      /\ r.initialized = t.initialized /\ r.updates = t.updates /\ r.revision = t.revision /\ r.saved = t.saved
      /\ r.request = t.request /\ r.inFlight = t.inFlight
  BY <1>2 DEF TabRow
<1>4. r \in TabRow BY <1>2 DEF TabRow
<1> HIDE DEF r
<1>5. Shaped(r, s, u, d, h) BY <1>1, <1>4 DEF Shaped
<1>6. TabFits(e, r, h) BY <1>1, <1>3 DEF TabFits
<1>7. QueuesFit(r, u, d) BY <1>1, <1>3 DEF QueuesFit, Requested, Answered, HelloFirst
<1>8. Unplugged(r, s, u, d) BY <1>1, <1>3 DEF Unplugged
<1>9. Continues(r, s, d)
  <2>1. ASSUME NEW i, NEW a, NEW n, Reached(t, d, i, a, n) PROVE Reached(r, d, i, a, n) BY <1>3, <2>1 DEF Reached
  <2> QED BY <1>1, <1>3, <2>1 DEF Continues
<1>10. Seen(e, lg, r) BY <1>1, <1>3 DEF Seen
<1>11. Kept(e, lg, r, u, d, h) BY <1>1, <1>3 DEF Kept, Orphaned, Accounted, Sent
<1>12. ClientFits(e, lg, r, s, u, d, h) BY <1>1, <1>5, <1>6, <1>7, <1>8, <1>9, <1>10, <1>11 DEF ClientFits
<1> QED BY <1>12 DEF r

\* A change of the editor is shown and waits to be sent.
LEMMA ClientEdits ==
  ASSUME NEW e, NEW lg, NEW t, NEW s, NEW u, NEW d, NEW h, ClientFits(e, lg, t, s, u, d, h), t.status = "connected",
         NEW x \in State
  PROVE  ClientFits(e, lg, [t EXCEPT !.doc = Merge(@, x), !.updates = Merge(@, x), !.revision = @ + 1, !.timer = TRUE],
                    s, u, d, Append(h, x))
<1> DEFINE r == [t EXCEPT !.doc = Merge(@, x), !.updates = Merge(@, x), !.revision = @ + 1, !.timer = TRUE]
           k == Append(h, x)
<1>1. Shaped(t, s, u, d, h) /\ TabFits(e, t, h) /\ QueuesFit(t, u, d) /\ Unplugged(t, s, u, d) /\ Continues(t, s, d)
      /\ (\A i \in DOMAIN d : Truthful(e, lg, d[i])) /\ Seen(e, lg, t) /\ Followed(e, lg, s) /\ Kept(e, lg, t, u, d, h)
  BY DEF ClientFits
<1>2. t \in TabRow /\ h \in Seq(State) BY <1>1 DEF Shaped
<1>3. t.doc \in State /\ t.updates \in State /\ t.revision \in Nat /\ t.saved \in Nat /\ t.request \in Nat
      /\ t.inFlight \in SUBSET (Nat \X Nat) /\ t.sequence \in Nat
  BY <1>2 DEF TabRow
<1>4. PICK doc \in State : doc = Merge(t.doc, x) BY <1>3, StateFacts
<1>5. PICK updates \in State : updates = Merge(t.updates, x) BY <1>3, StateFacts
<1>6. PICK next \in Nat : next = t.revision + 1 BY <1>3
<1>7. r = [t EXCEPT !.doc = doc, !.updates = updates, !.revision = next, !.timer = TRUE]
  BY <1>2, <1>4, <1>5, <1>6 DEF TabRow
<1>8. /\ r.status = t.status /\ r.doc = doc /\ r.epoch = t.epoch /\ r.sequence = t.sequence /\ r.canSend = t.canSend
      /\ r.initialized = t.initialized /\ r.updates = updates /\ r.revision = next /\ r.saved = t.saved
      /\ r.request = t.request /\ r.inFlight = t.inFlight
  BY <1>2, <1>7 DEF TabRow
<1>9. r \in TabRow BY <1>2, <1>7 DEF TabRow
<1> HIDE DEF r
<1>10. k \in Seq(State) /\ Longer(h, x, k) BY <1>2, LongerOf
<1> HIDE DEF k
<1>11. Holds(doc, t.doc) /\ Holds(doc, x) /\ (Starts(t.doc) # {} => Starts(doc) # {}) BY <1>3, <1>4, StateFacts
<1>12. Len(h) = t.revision /\ t.initialized BY <1>1 DEF TabFits
<1>13. \A n \in 1 .. next : (n \in 1 .. t.revision /\ n \in DOMAIN h /\ k[n] = h[n]) \/ (n = next /\ k[n] = x)
  <2> SUFFICES ASSUME NEW n \in 1 .. next PROVE (n \in 1 .. t.revision /\ n \in DOMAIN h /\ k[n] = h[n]) \/ (n = next /\ k[n] = x)
    OBVIOUS
  <2>1. CASE n = next BY <1>6, <1>10, <1>12, <2>1 DEF Longer
  <2>2. CASE n # next
    <3>1. n \in 1 .. t.revision BY <1>3, <1>6, <2>2
    <3>2. n \in DOMAIN h BY <1>2, <1>12, <3>1
    <3> QED BY <1>10, <3>1, <3>2 DEF Longer
  <2> QED BY <2>1, <2>2
<1>14. TabFits(e, r, k)
  <2>1. t.epoch <= e /\ t.saved <= t.revision /\ (t.canSend => t.status = "connected")
        /\ (t.initialized => t.epoch # 0 /\ Starts(t.doc) # {})
    BY <1>1 DEF TabFits
  <2>2. Len(k) = next BY <1>6, <1>10, <1>12 DEF Longer
  <2>3. \A n \in 1 .. next : Holds(doc, k[n])
    <3> SUFFICES ASSUME NEW n \in 1 .. next PROVE Holds(doc, k[n])
      OBVIOUS
    <3>1. CASE n = next /\ k[n] = x BY <1>11, <3>1
    <3>2. CASE n \in 1 .. t.revision /\ n \in DOMAIN h /\ k[n] = h[n]
      <4>1. Holds(t.doc, h[n]) BY <1>1, <3>2 DEF TabFits
      <4>2. h[n] \in State BY <1>2, <3>2
      <4> QED BY <1>3, <1>11, <3>2, <4>1, <4>2, HoldsAll
    <3> QED BY <1>13, <3>1, <3>2
  <2>4. \A f \in t.inFlight : f[1] <= t.request /\ f[2] <= next
    <3> SUFFICES ASSUME NEW f \in t.inFlight PROVE f[1] <= t.request /\ f[2] <= next
      OBVIOUS
    <3>1. f[2] \in Nat /\ f[2] <= t.revision /\ f[1] <= t.request BY <1>1, <1>3 DEF TabFits
    <3> QED BY <1>3, <1>6, <3>1
  <2>5. \A f, g \in t.inFlight : f[1] = g[1] => f = g BY <1>1 DEF TabFits
  <2>6. t.saved <= next BY <1>3, <1>6, <2>1
  <2> QED BY <1>8, <1>11, <1>12, <2>1, <2>2, <2>3, <2>4, <2>5, <2>6 DEF TabFits
<1>15. Shaped(r, s, u, d, k) BY <1>1, <1>9, <1>10 DEF Shaped
<1>16. QueuesFit(r, u, d) BY <1>1, <1>8 DEF QueuesFit, Requested, Answered, HelloFirst
<1>17. Unplugged(r, s, u, d) BY <1>1, <1>8 DEF Unplugged
<1>18. Continues(r, s, d)
  <2>1. ASSUME NEW i, NEW a, NEW n, Reached(t, d, i, a, n) PROVE Reached(r, d, i, a, n) BY <1>8, <2>1 DEF Reached
  <2> QED BY <1>1, <1>8, <2>1 DEF Continues
<1>19. Seen(e, lg, r)
  <2> SUFFICES ASSUME t.epoch = e, t.sequence > 0 PROVE t.sequence \in DOMAIN lg /\ Holds(doc, lg[t.sequence])
    BY <1>8 DEF Seen
  <2>1. t.sequence \in DOMAIN lg /\ Holds(t.doc, lg[t.sequence]) BY <1>1 DEF Seen
  <2> QED BY <1>11, <2>1 DEF Holds
<1>20. Kept(e, lg, r, u, d, k)
  <2> SUFFICES ASSUME t.epoch = e, ~ Orphaned(r, u, d) PROVE Accounted(lg, r, u, k) BY <1>8 DEF Kept
  <2>1. Accounted(lg, t, u, h) BY <1>1, <1>8 DEF Kept, Orphaned
  <2>2. ASSUME NEW n \in 1 .. next
        PROVE  (Sent(r, n) => Arrives(lg, u, Empty, k[n])) /\ Arrives(lg, u, updates, k[n])
    <3>1. CASE n = next /\ k[n] = x
      <4>1. ~ Sent(r, n)
        <5>1. ~ n <= t.saved
          <6>1. t.saved <= t.revision BY <1>1 DEF TabFits
          <6> QED BY <1>3, <1>6, <3>1, <6>1
        <5>2. ASSUME NEW f \in t.inFlight PROVE ~ n <= f[2]
          <6>1. f[2] \in Nat /\ f[2] <= t.revision BY <1>1, <1>3 DEF TabFits
          <6> QED BY <1>3, <1>6, <3>1, <6>1
        <5> QED BY <1>8, <5>1, <5>2 DEF Sent
      <4>2. Arrives(lg, u, updates, x) BY <1>5 DEF Arrives, Merge
      <4> QED BY <3>1, <4>1, <4>2
    <3>2. CASE n \in 1 .. t.revision /\ n \in DOMAIN h /\ k[n] = h[n]
      <4>1. (Sent(t, n) => Arrives(lg, u, Empty, h[n])) /\ Arrives(lg, u, t.updates, h[n]) BY <2>1, <3>2 DEF Accounted
      <4>2. Sent(r, n) => Sent(t, n) BY <1>8 DEF Sent
      <4>3. Arrives(lg, u, updates, h[n]) BY <1>5, <4>1 DEF Arrives, Merge
      <4> QED BY <3>2, <4>1, <4>2, <4>3
    <3> QED BY <1>13, <3>1, <3>2
  <2> QED BY <1>8, <2>2 DEF Accounted
<1>21. ClientFits(e, lg, r, s, u, d, k)
  BY <1>1, <1>14, <1>15, <1>16, <1>17, <1>18, <1>19, <1>20 DEF ClientFits
<1> QED BY <1>21 DEF r, k

\* A connection ends: what was on its way is lost, and the requests with it.
LEMMA ClientHangs ==
  ASSUME NEW e, NEW lg, NEW t, NEW s, NEW u, NEW d, NEW h, ClientFits(e, lg, t, s, u, d, h), NEW r \in TabRow,
         r.status \notin {"syncing", "connected"}, ~ r.canSend,
         r.doc = t.doc, r.epoch = t.epoch, r.sequence = t.sequence, r.initialized = t.initialized,
         r.updates = t.updates, r.revision = t.revision, r.saved = t.saved, r.request = t.request, r.inFlight = t.inFlight
  PROVE  ClientFits(e, lg, r, Closed, <<>>, <<>>, h)
<1>1. Shaped(t, s, u, d, h) /\ TabFits(e, t, h) /\ QueuesFit(t, u, d) /\ Seen(e, lg, t) /\ Kept(e, lg, t, u, d, h)
  BY DEF ClientFits
<1>2. Shaped(r, Closed, <<>>, <<>>, h) BY <1>1 DEF Shaped, Closed, SocketRow
<1>3. TabFits(e, r, h) BY <1>1 DEF TabFits
<1>4. QueuesFit(r, <<>>, <<>>) BY DEF QueuesFit, Requested, InTurn, Answered, HelloFirst
<1>5. Unplugged(r, Closed, <<>>, <<>>) BY DEF Unplugged, Closed
<1>6. Continues(r, Closed, <<>>) BY DEF Continues
<1>7. Seen(e, lg, r) BY <1>1 DEF Seen
<1>8. Followed(e, lg, Closed) BY DEF Followed, Closed
<1>9. Kept(e, lg, r, <<>>, <<>>, h)
  <2> SUFFICES ASSUME r.epoch = e, ~ Orphaned(r, <<>>, <<>>) PROVE Accounted(lg, r, <<>>, h)
    BY DEF Kept
  <2>1. t.inFlight = {} BY DEF Orphaned
  <2>2. u = <<>>
    <3> SUFFICES ASSUME u # <<>> PROVE FALSE
      OBVIOUS
    <3>1. 1 \in DOMAIN u BY <1>1, QueueRows
    <3> QED BY <1>1, <2>1, <3>1 DEF QueuesFit, Requested
  <2>3. ~ Orphaned(t, u, d) BY <2>1 DEF Orphaned
  <2>4. Accounted(lg, t, <<>>, h) BY <1>1, <2>2, <2>3 DEF Kept
  <2> QED BY <2>4 DEF Accounted, Sent
<1>10. \A i \in DOMAIN <<>> : Truthful(e, lg, <<>>[i]) OBVIOUS
<1> QED BY <1>2, <1>3, <1>4, <1>5, <1>6, <1>7, <1>8, <1>9, <1>10 DEF ClientFits

\* A tab that connects is greeted.
LEMMA ClientConnects ==
  ASSUME NEW e, NEW lg, NEW t, NEW s, NEW u, NEW d, NEW h, ClientFits(e, lg, t, s, u, d, h), t.status = "disconnected",
         NEW m \in AnswerRow, m.type = "hello", m.from = 0, ~ m.committed, Truthful(e, lg, m),
         NEW r \in SocketRow, r.epoch = m.epoch, r.sequence = m.sequence, Followed(e, lg, r)
  PROVE  ClientFits(e, lg, [t EXCEPT !.status = "syncing"], r, u, Append(d, m), h)
<1> DEFINE q == [t EXCEPT !.status = "syncing"]
<1>1. Shaped(t, s, u, d, h) /\ TabFits(e, t, h) /\ QueuesFit(t, u, d) /\ Unplugged(t, s, u, d)
      /\ Seen(e, lg, t) /\ Kept(e, lg, t, u, d, h)
  BY DEF ClientFits
<1>2. t \in TabRow BY <1>1 DEF Shaped
<1>3. u = <<>> /\ d = <<>> BY <1>1 DEF Unplugged
<1>4. /\ q.status = "syncing" /\ q.doc = t.doc /\ q.epoch = t.epoch /\ q.sequence = t.sequence /\ q.canSend = t.canSend
      /\ q.initialized = t.initialized /\ q.updates = t.updates /\ q.revision = t.revision /\ q.saved = t.saved
      /\ q.request = t.request /\ q.inFlight = t.inFlight
  BY <1>2 DEF TabRow
<1>5. q \in TabRow BY <1>2 DEF TabRow, Status
<1> HIDE DEF q
<1>6. Append(d, m) = <<m>> BY <1>3
<1>7. m \in Downward /\ IsState(m) /\ ~ IsAck(m) BY DEF Downward, IsState, StateType, IsAck
<1>8. Shaped(q, r, u, <<m>>, h) BY <1>1, <1>5, <1>7 DEF Shaped
<1>9. TabFits(e, q, h) BY <1>1, <1>4 DEF TabFits
<1>10. QueuesFit(q, u, <<m>>) BY <1>3, <1>4, <1>7 DEF QueuesFit, Requested, InTurn, Answered, HelloFirst
<1>11. Unplugged(q, r, u, <<m>>) BY <1>4 DEF Unplugged
<1>12. Continues(q, r, <<m>>)
  <2>1. Reached(q, <<m>>, 2, r.epoch, r.sequence) BY <1>7 DEF Reached
  <2>2. Len(<<m>>) + 1 = 2 OBVIOUS
  <2>3. \A i \in DOMAIN <<m>> : <<m>>[i].from = 0 OBVIOUS
  <2> QED BY <2>1, <2>2, <2>3 DEF Continues
<1>13. Seen(e, lg, q) BY <1>1, <1>4 DEF Seen
<1>14. Kept(e, lg, q, u, <<m>>, h)
  <2>1. Kept(e, lg, q, u, d, h) BY <1>1, <1>4 DEF Kept, Orphaned, Accounted, Sent
  <2>2. Longer(d, m, <<m>>) BY <1>3 DEF Longer
  <2> QED BY <1>7, <2>1, <2>2, KeptTold
<1>15. \A i \in DOMAIN <<m>> : Truthful(e, lg, <<m>>[i]) OBVIOUS
<1>16. ClientFits(e, lg, q, r, u, Append(d, m), h)
  BY <1>6, <1>8, <1>9, <1>10, <1>11, <1>12, <1>13, <1>14, <1>15 DEF ClientFits
<1> QED BY <1>16 DEF q

----------------
(* What the server says.                                                      *)

Says(type, id, e, lg, from, state, w, k) ==
  [type |-> type, id |-> id, epoch |-> e, sequence |-> Len(lg), from |-> from, state |-> state,
   canWrite |-> w, committed |-> k]

LEMMA SaysFields ==
  ASSUME NEW type \in StateType, NEW id \in Nat, NEW e \in Nat, NEW lg \in Seq(State), NEW from \in Nat,
         NEW state \in State, NEW w \in BOOLEAN, NEW k \in BOOLEAN
  PROVE  LET m == Says(type, id, e, lg, from, state, w, k)
         IN  /\ m \in AnswerRow /\ m \in Downward /\ IsState(m)
             /\ m.type = type /\ m.id = id /\ m.epoch = e /\ m.sequence = Len(lg) /\ m.from = from
             /\ m.state = state /\ m.committed = k
<1> DEFINE m == Says(type, id, e, lg, from, state, w, k)
<1>1. Len(lg) \in Nat OBVIOUS
<1>2. m.type = type /\ m.id = id /\ m.epoch = e /\ m.sequence = Len(lg) /\ m.from = from
      /\ m.state = state /\ m.committed = k
  BY DEF Says
<1>3. m \in AnswerRow BY <1>1 DEF Says, AnswerRow
<1> HIDE DEF m
<1>4. m \in Downward /\ IsState(m) BY <1>2, <1>3 DEF Downward, IsState
<1> QED BY <1>2, <1>3, <1>4 DEF m

\* The whole state: what is in force, or more.
LEMMA SaysState ==
  ASSUME NEW e \in Nat \ {0}, NEW lg \in Seq(State), NEW type \in StateType, NEW id \in Nat,
         NEW state \in State, NEW w \in BOOLEAN, NEW k \in BOOLEAN, type = "ack" => k,
         \/ type = "reset"
         \/ lg # <<>> => Starts(state) # {} /\ Holds(state, Final(lg))
  PROVE  Truthful(e, lg, Says(type, id, e, lg, 0, state, w, k))
<1> DEFINE m == Says(type, id, e, lg, 0, state, w, k)
<1>1. /\ m.type = type /\ m.id = id /\ m.epoch = e /\ m.sequence = Len(lg) /\ m.from = 0
      /\ m.state = state /\ m.committed = k
  BY DEF Says
<1>2. Len(lg) > 0 => lg # <<>> /\ Len(lg) \in DOMAIN lg /\ Final(lg) = lg[Len(lg)] BY DEF Final
<1> HIDE DEF m
<1>3. Truthful(e, lg, m) BY <1>1, <1>2 DEF Truthful
<1> QED BY <1>3 DEF m

\* A delta: what came after the state that the socket was told last.
LEMMA SaysDelta ==
  ASSUME NEW e \in Nat \ {0}, NEW lg \in Seq(State), NEW n \in DOMAIN lg, NEW w \in BOOLEAN
  PROVE  Truthful(e, lg, Says("sync", 0, e, lg, n, Without(Final(lg), lg[n]), w, FALSE))
<1> DEFINE state == Without(Final(lg), lg[n])
           m == Says("sync", 0, e, lg, n, state, w, FALSE)
<1>1. n \in Nat \ {0} /\ Len(lg) > 0 /\ Len(lg) \in DOMAIN lg /\ lg[n] \in State /\ lg # <<>> OBVIOUS
<1>2. Final(lg) = lg[Len(lg)] /\ Final(lg) \in State BY <1>1 DEF Final
<1>3. state \in State /\ Holds(Merge(lg[n], state), Final(lg)) BY <1>1, <1>2, StateFacts
<1> HIDE DEF state
<1>4. /\ m.type = "sync" /\ m.id = 0 /\ m.epoch = e /\ m.sequence = Len(lg) /\ m.from = n
      /\ m.state = state /\ m.committed = FALSE
  BY DEF Says
<1> HIDE DEF m
<1>5. Truthful(e, lg, m) BY <1>1, <1>2, <1>3, <1>4 DEF Truthful
<1> QED BY <1>5 DEF m, state

\* The log while nothing is committed, and after a commit.
LEMMA LogStays == ASSUME NEW e, NEW lg \in Seq(State) PROVE LogGrows(e, lg, e, lg)
<1>1. Final(lg) \in State BY FinalState
<1>2. Len(lg) \in Nat OBVIOUS
<1> QED BY <1>1, <1>2, StateFacts DEF LogGrows

Committed(lg, state) == IF Holds(Final(lg), state) THEN lg ELSE Append(lg, Merge(Final(lg), state))

LEMMA LogCommits ==
  ASSUME NEW e, NEW lg, LogFits(e, lg), NEW state \in State, Complete(Merge(Final(lg), state)),
         lg = <<>> => Starts(state) # {}
  PROVE  LET after == Committed(lg, state)
         IN  /\ LogFits(e, after) /\ LogGrows(e, lg, e, after)
             /\ Holds(Final(after), state) /\ Holds(Merge(Final(lg), state), Final(after))
             /\ Merge(Final(lg), state) \in State /\ Starts(Merge(Final(lg), state)) # {}
<1> DEFINE all == Merge(Final(lg), state)
<1>1. lg \in Seq(State) /\ e \in 1 .. MaxEpoch /\ Complete(Final(lg)) /\ \A i \in DOMAIN lg : Starts(lg[i]) # {} BY DEF LogFits
<1>2. Final(lg) \in State BY <1>1, FinalState
<1>3. all \in State /\ Holds(all, Final(lg)) /\ Holds(all, state) /\ Holds(all, all) BY <1>2, StateFacts
<1>4. Starts(all) # {}
  <2>1. CASE lg = <<>> BY <1>2, <2>1, StateFacts
  <2>2. CASE lg # <<>>
    <3>1. Len(lg) \in DOMAIN lg BY <1>1, <2>2
    <3>2. Starts(Final(lg)) # {} BY <1>1, <2>2, <3>1 DEF Final
    <3> QED BY <1>2, <3>2, StateFacts
  <2> QED BY <2>1, <2>2
<1>5. CASE Holds(Final(lg), state)
  <2>1. Committed(lg, state) = lg BY <1>5 DEF Committed
  <2> QED BY <1>1, <1>3, <1>4, <1>5, <2>1, LogStays
<1>6. CASE ~ Holds(Final(lg), state)
  <2> DEFINE after == Append(lg, all)
  <2>1. Committed(lg, state) = after BY <1>6 DEF Committed
  <2> HIDE DEF all
  <2>2. after \in Seq(State) /\ Longer(lg, all, after) BY <1>1, <1>3, LongerOf
  <2> HIDE DEF after
  <2>3. Final(after) = all BY <2>2 DEF Final, Longer
  <2>4. \A i \in DOMAIN after : (i \in DOMAIN lg /\ after[i] = lg[i]) \/ after[i] = all BY <2>2 DEF Longer
  <2>5. LogFits(e, after)
    <3>1. \A i \in DOMAIN after : Starts(after[i]) # {} BY <1>1, <1>4, <2>4
    <3>2. Complete(Final(after)) BY <2>3 DEF all
    <3> QED BY <1>1, <2>2, <3>1, <3>2 DEF LogFits
  <2>6. LogGrows(e, lg, e, after)
    <3>1. DOMAIN lg \subseteq DOMAIN after /\ Len(lg) <= Len(after) /\ \A i \in DOMAIN lg : after[i] = lg[i] BY <2>2 DEF Longer
    <3> QED BY <1>3, <2>3, <3>1 DEF LogGrows
  <2> QED BY <1>3, <1>4, <2>1, <2>3, <2>5, <2>6 DEF all
<1> QED BY <1>5, <1>6

\* The end of an epoch.
LEMMA LogEnds ==
  ASSUME NEW e \in Nat, e \in 1 .. MaxEpoch, e < MaxEpoch, NEW lg
  PROVE  LogFits(e + 1, <<>>) /\ LogGrows(e, lg, e + 1, <<>>)
<1>1. MaxEpoch \in Nat BY BoundsAssumption
<1>2. <<>> \in Seq(State) OBVIOUS
<1>3. Complete(Final(<<>>)) BY DEF Complete, Final, Empty
<1>4. e + 1 \in 1 .. MaxEpoch /\ e + 1 > e BY <1>1
<1>5. \A i \in DOMAIN <<>> : Starts(<<>>[i]) # {} OBVIOUS
<1> QED BY <1>2, <1>3, <1>4, <1>5 DEF LogFits, LogGrows

----------------
(* Steps.                                                                     *)

Put(f, c, x) == [k \in Clients |-> IF k = c THEN x ELSE f[k]]

\* Every variable of the clients is a function on them.
OnClients == /\ tab = [k \in Clients |-> tab[k]] /\ socket = [k \in Clients |-> socket[k]]
             /\ up = [k \in Clients |-> up[k]] /\ down = [k \in Clients |-> down[k]] /\ made = [k \in Clients |-> made[k]]
LEMMA AllOnClients == ASSUME SessInv PROVE OnClients
BY DEF SessInv, OnClients

\* A step that concerns the client c: the others only see the log grow.
LEMMA OneClient ==
  ASSUME SessInv, NEW c \in Clients, LogFits(epoch', log'), LogGrows(epoch, log, epoch', log'), rights' \subseteq Clients,
         NEW t, tab' = Put(tab, c, t), NEW s, socket' = Put(socket, c, s), NEW u, up' = Put(up, c, u),
         NEW d, down' = Put(down, c, d), NEW h, made' = Put(made, c, h), ClientFits(epoch', log', t, s, u, d, h)
  PROVE  SessInv'
<1>1. /\ tab' = [k \in Clients |-> tab'[k]] /\ socket' = [k \in Clients |-> socket'[k]]
      /\ up' = [k \in Clients |-> up'[k]] /\ down' = [k \in Clients |-> down'[k]] /\ made' = [k \in Clients |-> made'[k]]
  BY DEF Put
<1>2. LogFits(epoch, log) BY DEF SessInv
<1>3. epoch \in Nat /\ epoch' \in Nat /\ Len(log) \in Nat /\ Len(log') \in Nat BY <1>2 DEF LogFits
<1>4. ASSUME NEW k \in Clients
      PROVE  ClientFits(epoch', log', tab'[k], socket'[k], up'[k], down'[k], made'[k])
  <2>1. CASE k = c
    <3>1. tab'[k] = t /\ socket'[k] = s /\ up'[k] = u /\ down'[k] = d /\ made'[k] = h BY <2>1 DEF Put
    <3> QED BY <3>1
  <2>2. CASE k # c
    <3>1. tab'[k] = tab[k] /\ socket'[k] = socket[k] /\ up'[k] = up[k] /\ down'[k] = down[k] /\ made'[k] = made[k]
      BY <2>2 DEF Put
    <3>2. ClientFits(epoch, log, tab[k], socket[k], up[k], down[k], made[k]) BY DEF SessInv
    <3>3. ClientFits(epoch', log', tab[k], socket[k], up[k], down[k], made[k]) BY <1>3, <3>2, GrownClient
    <3> QED BY <3>1, <3>3
  <2> QED BY <2>1, <2>2
<1> QED BY <1>1, <1>4 DEF SessInv

\* What is known of a client before a step.
LEMMA BeforeStep ==
  ASSUME SessInv, NEW c \in Clients
  PROVE  /\ ClientFits(epoch, log, tab[c], socket[c], up[c], down[c], made[c])
         /\ Shaped(tab[c], socket[c], up[c], down[c], made[c])
         /\ tab[c] \in TabRow /\ socket[c] \in SocketRow
         /\ LogFits(epoch, log) /\ epoch \in Nat \ {0} /\ epoch \in 1 .. MaxEpoch /\ log \in Seq(State) /\ Len(log) \in Nat
         /\ Latest = Final(log) /\ Latest \in State /\ rights \subseteq Clients
         /\ tab = Put(tab, c, tab[c]) /\ socket = Put(socket, c, socket[c]) /\ up = Put(up, c, up[c])
         /\ down = Put(down, c, down[c]) /\ made = Put(made, c, made[c])
<1>1. ClientFits(epoch, log, tab[c], socket[c], up[c], down[c], made[c]) BY DEF SessInv
<1>2. Shaped(tab[c], socket[c], up[c], down[c], made[c]) BY <1>1 DEF ClientFits
<1>3. tab[c] \in TabRow /\ socket[c] \in SocketRow BY <1>2 DEF Shaped
<1>4. LogFits(epoch, log) /\ rights \subseteq Clients BY DEF SessInv
<1>5. MaxEpoch \in Nat BY BoundsAssumption
<1>6. epoch \in Nat \ {0} /\ epoch \in 1 .. MaxEpoch /\ log \in Seq(State) /\ Len(log) \in Nat BY <1>4, <1>5 DEF LogFits
<1>7. Latest = Final(log) BY DEF Latest, Final
<1>8. Latest \in State BY <1>6, <1>7, FinalState
<1>9. /\ tab = Put(tab, c, tab[c]) /\ socket = Put(socket, c, socket[c]) /\ up = Put(up, c, up[c])
      /\ down = Put(down, c, down[c]) /\ made = Put(made, c, made[c])
  BY AllOnClients DEF OnClients, Put
<1> QED BY <1>1, <1>2, <1>3, <1>4, <1>6, <1>7, <1>8, <1>9

\* A step of the tab c: the server does not move.
LEMMA TabStep ==
  ASSUME SessInv, NEW c \in Clients, epoch' = epoch, log' = log, rights' = rights,
         NEW t, tab' = Put(tab, c, t), NEW s, socket' = Put(socket, c, s), NEW u, up' = Put(up, c, u),
         NEW d, down' = Put(down, c, d), NEW h, made' = Put(made, c, h), ClientFits(epoch, log, t, s, u, d, h)
  PROVE  SessInv'
<1>1. LogFits(epoch, log) /\ log \in Seq(State) /\ rights \subseteq Clients BY BeforeStep
<1>2. LogGrows(epoch, log, epoch, log) BY <1>1, LogStays
<1>3. LogFits(epoch', log') /\ LogGrows(epoch, log, epoch', log') /\ rights' \subseteq Clients BY <1>1, <1>2
<1>4. ClientFits(epoch', log', t, s, u, d, h) OBVIOUS
<1> QED BY <1>3, <1>4, OneClient

LEMMA ReplaceKeeps == ASSUME SessInv, Replace PROVE SessInv'
<1>1. epoch < MaxEpoch /\ epoch' = epoch + 1 /\ log' = <<>>
      /\ UNCHANGED <<rights, tab, socket, up, down, made, drops, turns>>
  BY DEF Replace
<1>2. LogFits(epoch, log) /\ rights \subseteq Clients BY DEF SessInv
<1>3. epoch \in 1 .. MaxEpoch /\ log \in Seq(State) BY <1>2 DEF LogFits
<1>4. epoch \in Nat /\ epoch + 1 \in Nat /\ Len(log) \in Nat /\ Len(<<>>) \in Nat BY <1>3
<1>5. LogFits(epoch', log') /\ LogGrows(epoch, log, epoch', log') BY <1>1, <1>3, <1>4, LogEnds
<1>6. ASSUME NEW k \in Clients PROVE ClientFits(epoch', log', tab[k], socket[k], up[k], down[k], made[k])
  <2>1. ClientFits(epoch, log, tab[k], socket[k], up[k], down[k], made[k]) BY DEF SessInv
  <2>2. epoch' \in Nat /\ Len(log') \in Nat BY <1>1, <1>4
  <2> QED BY <1>4, <1>5, <2>1, <2>2, GrownClient
<1> QED BY <1>1, <1>2, <1>5, <1>6 DEF SessInv

LEMMA TurnKeeps == ASSUME SessInv, NEW c \in Clients, Turn(c) PROVE SessInv'
<1>1. rights' = (IF c \in rights THEN rights \ {c} ELSE rights \cup {c}) /\ UNCHANGED <<epoch, log, tab, socket, up, down, made>>
  BY DEF Turn
<1>2. rights' \subseteq Clients BY <1>1 DEF SessInv
<1> QED BY <1>1, <1>2 DEF SessInv

LEMMA DropKeeps == ASSUME SessInv, NEW c \in Clients, Drop(c) PROVE SessInv'
<1>1. /\ tab' = [tab EXCEPT ![c].status = "disconnected", ![c].canSend = FALSE]
      /\ socket' = [socket EXCEPT ![c] = Closed] /\ down' = [down EXCEPT ![c] = <<>>] /\ up' = [up EXCEPT ![c] = <<>>]
      /\ UNCHANGED <<epoch, log, rights, made>>
  BY DEF Drop, Hang
<1>2. /\ ClientFits(epoch, log, tab[c], socket[c], up[c], down[c], made[c]) /\ tab[c] \in TabRow
      /\ made = Put(made, c, made[c])
  BY BeforeStep
<1>3. PICK t : t = [tab[c] EXCEPT !.status = "disconnected", !.canSend = FALSE] OBVIOUS
<1>4. /\ t \in TabRow /\ t.status = "disconnected" /\ ~ t.canSend /\ t.doc = tab[c].doc /\ t.epoch = tab[c].epoch
      /\ t.sequence = tab[c].sequence /\ t.initialized = tab[c].initialized /\ t.updates = tab[c].updates
      /\ t.revision = tab[c].revision /\ t.saved = tab[c].saved /\ t.request = tab[c].request
      /\ t.inFlight = tab[c].inFlight
  BY <1>2, <1>3 DEF TabRow, Status
<1>5. ClientFits(epoch, log, t, Closed, <<>>, <<>>, made[c]) BY <1>2, <1>4, ClientHangs
<1>6. tab' = [tab EXCEPT ![c] = t] BY <1>1, <1>3 DEF SessInv
<1>7. tab' = Put(tab, c, t) /\ socket' = Put(socket, c, Closed) /\ up' = Put(up, c, <<>>) /\ down' = Put(down, c, <<>>)
      /\ made' = Put(made, c, made[c])
  BY <1>1, <1>2, <1>6, AllOnClients DEF OnClients, Put
<1> QED BY <1>1, <1>5, <1>7, TabStep

LEMMA LeaveKeeps == ASSUME SessInv, NEW c \in Clients, Leave(c) PROVE SessInv'
<1>1. /\ tab[c].status \in Stopped
      /\ socket' = [socket EXCEPT ![c] = Closed] /\ down' = [down EXCEPT ![c] = <<>>] /\ up' = [up EXCEPT ![c] = <<>>]
      /\ UNCHANGED <<epoch, log, rights, tab, made>>
  BY DEF Leave, Hang
<1>2. /\ ClientFits(epoch, log, tab[c], socket[c], up[c], down[c], made[c]) /\ tab[c] \in TabRow
      /\ tab = Put(tab, c, tab[c]) /\ made = Put(made, c, made[c])
  BY BeforeStep
<1>3. tab[c].status \notin {"syncing", "connected"} /\ ~ tab[c].canSend
  <2>1. tab[c].canSend => tab[c].status = "connected" BY <1>2 DEF ClientFits, TabFits
  <2> QED BY <1>1, <2>1 DEF Stopped
<1>4. ClientFits(epoch, log, tab[c], Closed, <<>>, <<>>, made[c]) BY <1>2, <1>3, ClientHangs
<1>5. tab' = Put(tab, c, tab[c]) /\ socket' = Put(socket, c, Closed) /\ up' = Put(up, c, <<>>) /\ down' = Put(down, c, <<>>)
      /\ made' = Put(made, c, made[c])
  BY <1>1, <1>2, AllOnClients DEF OnClients, Put
<1> QED BY <1>1, <1>4, <1>5, TabStep

LEMMA ConnectKeeps == ASSUME SessInv, NEW c \in Clients, Connect(c) PROVE SessInv'
<1>1. /\ tab[c].status = "disconnected" /\ tab' = [tab EXCEPT ![c].status = "syncing"]
      /\ epoch' = epoch /\ log' = log /\ rights' = rights /\ up' = up /\ made' = made
      /\ down' = [down EXCEPT ![c] = Append(down[c], Says("hello", 0, epoch, log, 0, Latest, c \in rights, FALSE))]
      /\ socket' = [socket EXCEPT ![c] = [open |-> TRUE, epoch |-> epoch, sequence |-> Len(log), writable |-> c \in rights]]
  BY DEF Connect, Send, Answer, Follow, Says, SessInv
<1>2. /\ ClientFits(epoch, log, tab[c], socket[c], up[c], down[c], made[c]) /\ tab[c] \in TabRow
      /\ LogFits(epoch, log) /\ epoch \in Nat \ {0} /\ log \in Seq(State) /\ Len(log) \in Nat
      /\ Latest = Final(log) /\ Latest \in State
      /\ up = Put(up, c, up[c]) /\ made = Put(made, c, made[c])
  BY BeforeStep
<1> DEFINE w == c \in rights
<1>3. w \in BOOLEAN OBVIOUS
<1> HIDE DEF w
<1>4. PICK m : m = Says("hello", 0, epoch, log, 0, Latest, w, FALSE) OBVIOUS
<1>5. m \in AnswerRow /\ m.type = "hello" /\ m.from = 0 /\ ~ m.committed /\ m.epoch = epoch /\ m.sequence = Len(log)
  <2>1. "hello" \in StateType /\ 0 \in Nat BY DEF StateType
  <2>2. m \in AnswerRow BY <1>2, <1>3, <1>4, <2>1, SaysFields
  <2> QED BY <1>4, <2>2 DEF Says
<1>6. Truthful(epoch, log, m)
  <2>1. log # <<>> => Starts(Latest) # {} /\ Holds(Latest, Final(log))
    <3> SUFFICES ASSUME log # <<>> PROVE Starts(Latest) # {} /\ Holds(Latest, Final(log))
      OBVIOUS
    <3>1. Len(log) \in DOMAIN log /\ Final(log) = log[Len(log)] BY <1>2 DEF Final
    <3> QED BY <1>2, <3>1, StateFacts DEF LogFits
  <2>2. "hello" \in StateType BY DEF StateType
  <2> QED BY <1>2, <1>3, <1>4, <2>1, <2>2, SaysState
<1>7. PICK s : s = [open |-> TRUE, epoch |-> epoch, sequence |-> Len(log), writable |-> w] OBVIOUS
<1>8. s \in SocketRow /\ s.epoch = m.epoch /\ s.sequence = m.sequence /\ Followed(epoch, log, s)
  BY <1>2, <1>3, <1>5, <1>7 DEF SocketRow, Followed
<1>9. PICK t : t = [tab[c] EXCEPT !.status = "syncing"] OBVIOUS
<1>10. ClientFits(epoch, log, t, s, up[c], Append(down[c], m), made[c]) BY <1>1, <1>2, <1>5, <1>6, <1>8, <1>9, ClientConnects
<1>11. tab' = [tab EXCEPT ![c] = t] BY <1>1, <1>9 DEF SessInv
<1>12. down' = [down EXCEPT ![c] = Append(down[c], m)] /\ socket' = [socket EXCEPT ![c] = s] BY <1>1, <1>4, <1>7 DEF w
<1>13. tab' = Put(tab, c, t) /\ socket' = Put(socket, c, s) /\ down' = Put(down, c, Append(down[c], m))
       /\ up' = Put(up, c, up[c]) /\ made' = Put(made, c, made[c])
  BY <1>1, <1>2, <1>11, <1>12, AllOnClients DEF OnClients, Put
<1> QED BY <1>1, <1>10, <1>13, TabStep

\* A socket that was told the state in force, or closed.
Told(e, lg, r) == r \in SocketRow /\ Followed(e, lg, r) /\ (r.open => r.epoch = e /\ r.sequence = Len(lg))
LEMMA ToldRows ==
  ASSUME NEW e \in Nat \ {0}, NEW lg \in Seq(State), NEW w \in BOOLEAN
  PROVE  /\ Told(e, lg, Closed)
         /\ \A r : r = [open |-> TRUE, epoch |-> e, sequence |-> Len(lg), writable |-> w] => Told(e, lg, r)
<1>1. Len(lg) \in Nat OBVIOUS
<1>2. Told(e, lg, Closed) BY DEF Closed, SocketRow, Told, Followed
<1>3. ASSUME NEW r, r = [open |-> TRUE, epoch |-> e, sequence |-> Len(lg), writable |-> w] PROVE Told(e, lg, r)
  BY <1>1, <1>3 DEF SocketRow, Told, Followed
<1> QED BY <1>2, <1>3

LEMMA PollKeeps == ASSUME SessInv, NEW c \in Clients, Poll(c) PROVE SessInv'
<1> DEFINE w == c \in rights
           type == IF socket[c].epoch = epoch THEN "sync" ELSE "reset"
<1>0. /\ ClientFits(epoch, log, tab[c], socket[c], up[c], down[c], made[c]) /\ socket[c] \in SocketRow
      /\ LogFits(epoch, log) /\ epoch \in Nat \ {0} /\ log \in Seq(State) /\ Len(log) \in Nat
      /\ Latest = Final(log) /\ Latest \in State
      /\ tab = Put(tab, c, tab[c]) /\ up = Put(up, c, up[c]) /\ made = Put(made, c, made[c])
  BY BeforeStep
<1>1. /\ socket[c].open /\ epoch' = epoch /\ log' = log /\ rights' = rights /\ tab' = tab /\ up' = up /\ made' = made
      /\ \/ down' = [down EXCEPT ![c] = Append(down[c], Says(type, 0, epoch, log, 0, Latest, w, FALSE))]
         \/ /\ socket[c].epoch = epoch /\ socket[c].sequence > 0
            /\ down' = [down EXCEPT ![c] = Append(down[c], Says("sync", 0, epoch, log, socket[c].sequence,
                                                               Without(Latest, log[socket[c].sequence]), w, FALSE))]
      /\ \/ socket[c].epoch = epoch
            /\ socket' = [socket EXCEPT ![c] = [open |-> TRUE, epoch |-> epoch, sequence |-> Len(log), writable |-> w]]
         \/ socket[c].epoch # epoch /\ socket' = [socket EXCEPT ![c] = Closed]
  BY DEF Poll, Send, Answer, Follow, Close, Says, SessInv
<1>2. w \in BOOLEAN OBVIOUS
<1> HIDE DEF w
<1>3. type \in StateType /\ type # "hello" /\ type # "ack" BY DEF StateType
<1>4. Followed(epoch, log, socket[c]) BY <1>0 DEF ClientFits
<1>5. PICK r : socket' = Put(socket, c, r) /\ Told(epoch, log, r)
  <2>1. CASE socket' = [socket EXCEPT ![c] = Closed]
    <3>1. socket' = Put(socket, c, Closed) BY <2>1, AllOnClients DEF OnClients, Put
    <3>2. Told(epoch, log, Closed) BY <1>0, <1>2, ToldRows
    <3> QED BY <3>1, <3>2
  <2>2. CASE socket' = [socket EXCEPT ![c] = [open |-> TRUE, epoch |-> epoch, sequence |-> Len(log), writable |-> w]]
    <3>1. PICK r : r = [open |-> TRUE, epoch |-> epoch, sequence |-> Len(log), writable |-> w] OBVIOUS
    <3>2. socket' = Put(socket, c, r) BY <2>2, <3>1, AllOnClients DEF OnClients, Put
    <3>3. Told(epoch, log, r) BY <1>0, <1>2, <3>1, ToldRows
    <3> QED BY <3>2, <3>3
  <2> QED BY <1>1, <2>1, <2>2
<1>6. PICK m : /\ m \in Downward /\ down' = [down EXCEPT ![c] = Append(down[c], m)] /\ IsState(m) /\ m.type # "hello"
               /\ ~ m.committed /\ Truthful(epoch, log, m) /\ m.epoch = epoch /\ m.sequence = Len(log)
               /\ m.from # 0 => m.epoch = socket[c].epoch /\ m.from = socket[c].sequence
  <2>1. CASE down' = [down EXCEPT ![c] = Append(down[c], Says(type, 0, epoch, log, 0, Latest, w, FALSE))]
    <3>1. PICK m : m = Says(type, 0, epoch, log, 0, Latest, w, FALSE) OBVIOUS
    <3> HIDE DEF type
    <3>2. m \in AnswerRow
      <4>1. 0 \in Nat OBVIOUS
      <4> QED BY <1>0, <1>2, <1>3, <3>1, <4>1, SaysFields
    <3>3. m.type = type /\ m.epoch = epoch /\ m.sequence = Len(log) /\ m.from = 0 /\ m.committed = FALSE BY <3>1 DEF Says
    <3>4. m \in Downward /\ IsState(m) BY <1>3, <3>2, <3>3 DEF Downward, IsState
    <3>5. Truthful(epoch, log, m)
      <4>1. log # <<>> => Starts(Latest) # {} /\ Holds(Latest, Final(log))
        <5> SUFFICES ASSUME log # <<>> PROVE Starts(Latest) # {} /\ Holds(Latest, Final(log))
          OBVIOUS
        <5>1. Len(log) \in DOMAIN log /\ Final(log) = log[Len(log)] BY <1>0 DEF Final
        <5> QED BY <1>0, <5>1, StateFacts DEF LogFits
      <4> QED BY <1>0, <1>2, <1>3, <3>1, <4>1, SaysState
    <3>6. down' = [down EXCEPT ![c] = Append(down[c], m)] BY <2>1, <3>1
    <3> QED BY <1>3, <3>3, <3>4, <3>5, <3>6
  <2>2. CASE /\ socket[c].epoch = epoch /\ socket[c].sequence > 0
             /\ down' = [down EXCEPT ![c] = Append(down[c], Says("sync", 0, epoch, log, socket[c].sequence,
                                                               Without(Latest, log[socket[c].sequence]), w, FALSE))]
    <3>1. PICK n : n = socket[c].sequence OBVIOUS
    <3>2. n \in DOMAIN log BY <1>0, <1>1, <1>4, <2>2, <3>1 DEF Followed, SocketRow
    <3>3. PICK m : m = Says("sync", 0, epoch, log, n, Without(Final(log), log[n]), w, FALSE) OBVIOUS
    <3>4. Truthful(epoch, log, m) BY <1>0, <1>2, <3>2, <3>3, SaysDelta
    <3>5. log[n] \in State /\ n \in Nat BY <1>0, <3>2
    <3>6. PICK state \in State : state = Without(Final(log), log[n]) BY <1>0, <3>5, StateFacts
    <3>7. m = Says("sync", 0, epoch, log, n, state, w, FALSE) BY <3>3, <3>6
    <3>8. m \in AnswerRow
      <4>1. 0 \in Nat /\ "sync" \in StateType BY DEF StateType
      <4> QED BY <1>0, <1>2, <3>5, <3>7, <4>1, SaysFields
    <3>9. m.type = "sync" /\ m.epoch = epoch /\ m.sequence = Len(log) /\ m.from = n /\ m.committed = FALSE BY <3>7 DEF Says
    <3>10. m \in Downward /\ IsState(m) BY <3>8, <3>9 DEF Downward, IsState, StateType
    <3>11. down' = [down EXCEPT ![c] = Append(down[c], m)] BY <1>0, <2>2, <3>1, <3>3
    <3> QED BY <2>2, <3>1, <3>4, <3>9, <3>10, <3>11
  <2> QED BY <1>1, <2>1, <2>2
<1>7. ClientFits(epoch, log, tab[c], r, up[c], Append(down[c], m), made[c]) BY <1>0, <1>1, <1>5, <1>6, ClientTold DEF Told
<1>8. tab' = Put(tab, c, tab[c]) /\ socket' = Put(socket, c, r) /\ down' = Put(down, c, Append(down[c], m))
      /\ up' = Put(up, c, up[c]) /\ made' = Put(made, c, made[c])
  BY <1>0, <1>1, <1>5, <1>6, AllOnClients DEF OnClients, Put
<1> QED BY <1>1, <1>7, <1>8, TabStep

\* What an answer to the first request changes.
LEMMA AnswerStep ==
  ASSUME SessInv, NEW c \in Clients, socket[c].open, up[c] # <<>>, rights' = rights, tab' = tab, made' = made,
         up' = [up EXCEPT ![c] = Tail(@)], LogFits(epoch', log'), LogGrows(epoch, log, epoch', log'),
         NEW m \in Downward, down' = [down EXCEPT ![c] = Append(@, m)],
         NEW r \in SocketRow, socket' = [socket EXCEPT ![c] = r],
         m.id = up[c][1].id, m.type # "hello", Truthful(epoch', log', m),
         IsState(m) => m.from = 0 /\ (r.open => r.epoch = m.epoch /\ r.sequence = m.sequence),
         ~ IsState(m) => r = socket[c], Followed(epoch', log', r),
         IsAck(m) /\ epoch' = epoch => Holds(Final(log'), up[c][1].state)
  PROVE  SessInv'
<1>1. /\ ClientFits(epoch, log, tab[c], socket[c], up[c], down[c], made[c]) /\ LogFits(epoch, log)
      /\ epoch \in Nat \ {0} /\ Len(log) \in Nat /\ rights \subseteq Clients /\ tab[c] \in TabRow
      /\ tab = Put(tab, c, tab[c]) /\ made = Put(made, c, made[c])
  BY BeforeStep
<1>2. epoch' \in Nat /\ Len(log') \in Nat BY DEF LogFits
<1>3. ClientFits(epoch', log', tab[c], socket[c], up[c], down[c], made[c]) BY <1>1, <1>2, GrownClient
<1>4. IsAck(m) /\ tab[c].epoch = epoch' => Holds(Final(log'), up[c][1].state)
  <2> SUFFICES ASSUME IsAck(m), tab[c].epoch = epoch' PROVE epoch' = epoch
    OBVIOUS
  <2>1. tab[c].epoch <= epoch BY <1>1 DEF ClientFits, TabFits
  <2> QED BY <1>1, <1>2, <2>1 DEF LogGrows
<1>5. ClientFits(epoch', log', tab[c], r, Tail(up[c]), Append(down[c], m), made[c]) BY <1>3, <1>4, ClientAnswered
<1>6. tab' = Put(tab, c, tab[c]) /\ socket' = Put(socket, c, r) /\ down' = Put(down, c, Append(down[c], m))
      /\ up' = Put(up, c, Tail(up[c])) /\ made' = Put(made, c, made[c])
  BY <1>1, AllOnClients DEF OnClients, Put
<1>7. rights' \subseteq Clients BY <1>1
<1> QED BY <1>5, <1>6, <1>7, OneClient

AsCommitted(m) == [m EXCEPT !.committed = TRUE]
LEMMA SaysCommitted ==
  ASSUME NEW type, NEW id, NEW e, NEW lg, NEW from, NEW state, NEW w \in BOOLEAN
  PROVE  AsCommitted(Says(type, id, e, lg, from, state, w, FALSE)) = Says(type, id, e, lg, from, state, w, TRUE)
<1>1. PICK n : n = Len(lg) OBVIOUS
<1>2. PICK f \in BOOLEAN : f = FALSE OBVIOUS
<1>3. PICK g \in BOOLEAN : g = TRUE OBVIOUS
<1>4. PICK r : r = [type |-> type, id |-> id, epoch |-> e, sequence |-> n, from |-> from, state |-> state,
                    canWrite |-> w, committed |-> f]
  OBVIOUS
<1>5. [r EXCEPT !.committed = g] = [type |-> type, id |-> id, epoch |-> e, sequence |-> n, from |-> from, state |-> state,
                                    canWrite |-> w, committed |-> g]
  BY <1>4
<1> QED BY <1>1, <1>2, <1>3, <1>4, <1>5 DEF Says, AsCommitted

LEMMA HandleKeeps == ASSUME SessInv, NEW c \in Clients, Handle(c) PROVE SessInv'
<1> DEFINE m == up[c][1]
           w == c \in rights
<1>0. /\ ClientFits(epoch, log, tab[c], socket[c], up[c], down[c], made[c]) /\ socket[c] \in SocketRow
      /\ Shaped(tab[c], socket[c], up[c], down[c], made[c])
      /\ LogFits(epoch, log) /\ epoch \in Nat \ {0} /\ epoch \in 1 .. MaxEpoch /\ log \in Seq(State) /\ Len(log) \in Nat
      /\ Latest = Final(log) /\ Latest \in State
  BY BeforeStep
<1>1. /\ socket[c].open /\ up[c] # <<>> /\ rights' = rights /\ tab' = tab /\ made' = made /\ up' = [up EXCEPT ![c] = Tail(@)]
      /\ \/ \E code \in {"read_only", "seed_required", "missing_state"} : Fail(c, code, m)
         \/ /\ UNCHANGED <<epoch, log>> /\ Send(c, Answer(c, "reset", m.id, 0, Latest)) /\ Close(c)
         \/ /\ ~ Stale(m) /\ (log = <<>> => m.type = "seed") /\ Whole(m) /\ (Commit(c, m) \/ CommitLast(c, m))
  BY DEF Handle
<1>2. m \in Upward /\ m.id \in Nat /\ m.state \in State /\ 1 \in DOMAIN up[c] BY <1>0, <1>1, QueueRows
<1>3. w \in BOOLEAN OBVIOUS
<1>4. m.type = "seed" => Starts(m.state) # {} BY <1>0, <1>2 DEF ClientFits, QueuesFit, Requested
<1>5. Followed(epoch, log, socket[c]) BY <1>0 DEF ClientFits
<1>6. LogGrows(epoch, log, epoch, log) BY <1>0, LogStays
<1>7. ASSUME NEW code \in {"read_only", "seed_required", "missing_state"}, Fail(c, code, m) PROVE SessInv'
  <2>1. PICK x : x = Error(code, m.id) OBVIOUS
  <2>2. x \in ErrorRow /\ x.type = code /\ x.id = m.id BY <1>2, <2>1 DEF Error, ErrorRow
  <2>3. x \in Downward /\ ~ IsState(x) /\ ~ IsAck(x) /\ x.type # "hello" BY <2>2 DEF Downward, IsState, StateType, IsAck
  <2>4. Truthful(epoch, log, x) BY <2>3 DEF Truthful
  <2>5. /\ down' = [down EXCEPT ![c] = Append(@, x)] /\ epoch' = epoch /\ log' = log /\ socket' = socket
    BY <1>7, <2>1 DEF Fail, Send
  <2>6. socket' = [socket EXCEPT ![c] = socket[c]] BY <2>5, AllOnClients DEF OnClients
  <2>7. LogFits(epoch', log') /\ LogGrows(epoch, log, epoch', log') /\ Truthful(epoch', log', x)
        /\ Followed(epoch', log', socket[c])
    BY <1>0, <1>5, <1>6, <2>4, <2>5
  <2>8. x.id = up[c][1].id BY <2>2
  <2> QED BY <1>0, <1>1, <2>3, <2>5, <2>6, <2>7, <2>8, AnswerStep
<1>8. ASSUME UNCHANGED <<epoch, log>>, Send(c, Answer(c, "reset", m.id, 0, Latest)), Close(c) PROVE SessInv'
  <2> HIDE DEF w
  <2>1. PICK x : x = Says("reset", m.id, epoch, log, 0, Latest, w, FALSE) OBVIOUS
  <2>2. x.type = "reset" /\ x.id = m.id /\ x.from = 0 /\ x.committed = FALSE BY <2>1 DEF Says
  <2>3. "reset" \in StateType /\ 0 \in Nat BY DEF StateType
  <2>4. x \in AnswerRow BY <1>0, <1>2, <1>3, <2>1, <2>3, SaysFields
  <2>5. x \in Downward /\ IsState(x) /\ ~ IsAck(x) /\ x.type # "hello" BY <2>2, <2>4 DEF Downward, IsState, StateType, IsAck
  <2>6. Truthful(epoch, log, x) BY <1>0, <1>2, <1>3, <2>1, <2>3, SaysState
  <2>7. down' = [down EXCEPT ![c] = Append(@, x)] BY <1>8, <2>1 DEF Send, Answer, Says, w
  <2>8. socket' = [socket EXCEPT ![c] = Closed] BY <1>8 DEF Close
  <2>9. Told(epoch, log, Closed) BY <1>0, <1>3, ToldRows
  <2>10. LogFits(epoch', log') /\ LogGrows(epoch, log, epoch', log') /\ Truthful(epoch', log', x)
         /\ Followed(epoch', log', Closed) /\ Closed \in SocketRow
    BY <1>0, <1>6, <1>8, <2>6, <2>9 DEF Told
  <2>11. x.id = up[c][1].id /\ ~ Closed.open BY <2>2 DEF Closed
  <2> QED BY <1>0, <1>1, <2>2, <2>5, <2>7, <2>8, <2>10, <2>11, AnswerStep
<1>9. ASSUME log = <<>> => m.type = "seed", Whole(m), Commit(c, m) PROVE SessInv'
  <2> HIDE DEF w
  <2>1. PICK after : after = Committed(log, m.state) OBVIOUS
  <2>2. Complete(Merge(Final(log), m.state)) BY <1>0, <1>9 DEF Whole
  <2>3. PICK all : all = Merge(Final(log), m.state) OBVIOUS
  <2>4. /\ LogFits(epoch, after) /\ LogGrows(epoch, log, epoch, after)
        /\ Holds(Final(after), m.state) /\ Holds(all, Final(after)) /\ all \in State /\ Starts(all) # {}
    BY <1>0, <1>2, <1>4, <1>9, <2>1, <2>2, <2>3, LogCommits
  <2>5. epoch' = epoch /\ log' = after BY <1>0, <1>9, <2>1 DEF Commit, Committed
  <2>6. after \in Seq(State) BY <2>4 DEF LogFits
  <2>7. PICK x : x = Says("ack", m.id, epoch, after, 0, all, w, TRUE) OBVIOUS
  <2>8. x.type = "ack" /\ x.id = m.id /\ x.from = 0 /\ x.committed = TRUE /\ x.epoch = epoch /\ x.sequence = Len(after)
    BY <2>7 DEF Says
  <2>9. "ack" \in StateType /\ 0 \in Nat BY DEF StateType
  <2>10. x \in AnswerRow BY <1>0, <1>2, <1>3, <2>4, <2>6, <2>7, <2>9, SaysFields
  <2>11. x \in Downward /\ IsState(x) /\ x.type # "hello" BY <2>8, <2>10 DEF Downward, IsState, StateType
  <2>12. Truthful(epoch, after, x) BY <1>0, <1>2, <1>3, <2>4, <2>6, <2>7, <2>9, SaysState
  <2>13. down' = [down EXCEPT ![c] = Append(@, x)]
    <3>1. [Answer(c, "ack", m.id, 0, all) EXCEPT !.committed = TRUE] = x
      <4>1. Answer(c, "ack", m.id, 0, all) = Says("ack", m.id, epoch, after, 0, all, w, FALSE)
        BY <2>5 DEF Answer, Says, w
      <4>2. AsCommitted(Says("ack", m.id, epoch, after, 0, all, w, FALSE)) = x BY <1>3, <2>7, SaysCommitted
      <4> QED BY <4>1, <4>2 DEF AsCommitted
    <3>2. Send(c, [Answer(c, "ack", m.id, 0, all) EXCEPT !.committed = TRUE]) BY <1>0, <1>9, <2>3 DEF Commit
    <3> QED BY <3>1, <3>2 DEF Send
  <2>14. socket[c].writable \in BOOLEAN BY <1>0 DEF SocketRow
  <2>15. PICK r : r = [open |-> TRUE, epoch |-> epoch, sequence |-> Len(after), writable |-> socket[c].writable] OBVIOUS
  <2>16. Told(epoch, after, r) BY <1>0, <2>6, <2>14, <2>15, ToldRows
  <2>17. socket' = [socket EXCEPT ![c] = r] BY <1>9, <2>5, <2>15 DEF Commit, Follow
  <2>18. LogFits(epoch', log') /\ LogGrows(epoch, log, epoch', log') /\ Truthful(epoch', log', x)
         /\ Followed(epoch', log', r) /\ r \in SocketRow
    BY <2>4, <2>5, <2>12, <2>16 DEF Told
  <2>19. IsState(x) => x.from = 0 /\ (r.open => r.epoch = x.epoch /\ r.sequence = x.sequence) BY <2>8, <2>16 DEF Told
  <2>20. IsAck(x) /\ epoch' = epoch => Holds(Final(log'), up[c][1].state) BY <2>4, <2>5
  <2>21. x.id = up[c][1].id BY <2>8
  <2> QED BY <1>0, <1>1, <2>11, <2>13, <2>17, <2>18, <2>19, <2>20, <2>21, AnswerStep
<1>10. ASSUME CommitLast(c, m) PROVE SessInv'
  <2> HIDE DEF w
  <2>1. epoch < MaxEpoch /\ epoch' = epoch + 1 /\ log' = <<>> BY <1>10 DEF CommitLast
  <2>2. LogFits(epoch', log') /\ LogGrows(epoch, log, epoch', log') BY <1>0, <2>1, LogEnds
  <2>3. PICK x : x = Says("reset", m.id, epoch', <<>>, 0, Empty, w, TRUE) OBVIOUS
  <2>4. epoch' \in Nat \ {0} /\ epoch' # epoch /\ <<>> \in Seq(State) BY <1>0, <2>1
  <2>5. Empty \in State BY <1>2, StateFacts
  <2>6. x.type = "reset" /\ x.id = m.id /\ x.from = 0 BY <2>3 DEF Says
  <2>7. "reset" \in StateType /\ 0 \in Nat /\ TRUE \in BOOLEAN BY DEF StateType
  <2>8. x \in AnswerRow BY <1>2, <1>3, <2>3, <2>4, <2>5, <2>7, SaysFields
  <2>9. x \in Downward /\ IsState(x) /\ x.type # "hello" BY <2>6, <2>8 DEF Downward, IsState, StateType
  <2>10. Truthful(epoch', log', x) BY <1>2, <1>3, <2>1, <2>3, <2>4, <2>5, <2>7, SaysState
  <2>11. down' = [down EXCEPT ![c] = Append(@, x)]
    <3>1. [Answer(c, "reset", m.id, 0, Empty) EXCEPT !.committed = TRUE] = x
      <4>1. Answer(c, "reset", m.id, 0, Empty) = Says("reset", m.id, epoch', <<>>, 0, Empty, w, FALSE)
        BY <2>1 DEF Answer, Says, w
      <4>2. AsCommitted(Says("reset", m.id, epoch', <<>>, 0, Empty, w, FALSE)) = x BY <1>3, <2>3, SaysCommitted
      <4> QED BY <4>1, <4>2 DEF AsCommitted
    <3>2. Send(c, [Answer(c, "reset", m.id, 0, Empty) EXCEPT !.committed = TRUE]) BY <1>10 DEF CommitLast
    <3> QED BY <3>1, <3>2 DEF Send
  <2>12. socket' = [socket EXCEPT ![c] = Closed] BY <1>10 DEF CommitLast, Close
  <2>13. Closed \in SocketRow /\ ~ Closed.open /\ Followed(epoch', log', Closed) BY DEF Closed, SocketRow, Followed
  <2>14. x.id = up[c][1].id BY <2>6
  <2> QED BY <1>0, <1>1, <2>2, <2>4, <2>6, <2>9, <2>10, <2>11, <2>12, <2>13, <2>14, AnswerStep
<1> QED BY <1>1, <1>7, <1>8, <1>9, <1>10

\* A document has finitely many blocks: the next clock of a client is a number.
LEMMA BlocksFinite ==
  ASSUME NEW S \in SUBSET Block PROVE IsFiniteSet(S) /\ Cardinality(S) \in Nat
<1> DEFINE Pairs == Id \X (Id \cup {Root})
           f == [b \in Block |-> <<b.id, b.on>>]
<1>1. MaxClock \in Int /\ IsFiniteSet(Clients) BY BoundsAssumption
<1>2. IsFiniteSet(1 .. MaxClock)
  <2>1. 1 \in Int OBVIOUS
  <2> QED BY <1>1, <2>1, FS_Interval
<1>3. IsFiniteSet(Id) BY <1>1, <1>2, FS_Product DEF Id
<1>4. IsFiniteSet({Root}) BY FS_Singleton
<1>5. IsFiniteSet(Pairs) BY <1>3, <1>4, FS_Union, FS_Product
<1>6. f \in Injection(Block, Pairs)
  <2>1. \A b \in Block : f[b] \in Pairs BY DEF Block
  <2>2. ASSUME NEW a \in Block, NEW b \in Block, f[a] = f[b] PROVE a = b
    <3>1. a.id = b.id /\ a.on = b.on BY <2>2
    <3> QED BY <3>1 DEF Block
  <2>3. f \in [Block -> Pairs] BY <2>1
  <2> HIDE DEF f, Pairs
  <2> QED BY <2>2, <2>3, Fun_IsInj
<1>7. IsFiniteSet(Block)
  <2> HIDE DEF f, Pairs
  <2> QED BY <1>5, <1>6, FS_Injection
<1>8. IsFiniteSet(S) BY <1>7, FS_Subset
<1> QED BY <1>8, FS_CardinalityType

\* What the editor does is a state.
LEMMA EditKeeps ==
  ASSUME SessInv, NEW c \in Clients, NEW x \in State, Edit(c, x) PROVE SessInv'
<1>1. /\ ClientFits(epoch, log, tab[c], socket[c], up[c], down[c], made[c]) /\ tab[c] \in TabRow
      /\ socket = Put(socket, c, socket[c]) /\ up = Put(up, c, up[c]) /\ down = Put(down, c, down[c])
  BY BeforeStep
<1>2. PICK t : t = [tab[c] EXCEPT !.doc = Merge(@, x), !.updates = Merge(@, x), !.revision = @ + 1, !.timer = TRUE] OBVIOUS
<1>3. PICK h : h = Append(made[c], x) OBVIOUS
<1>4. /\ tab[c].status = "connected" /\ tab' = [tab EXCEPT ![c] = t] /\ made' = [made EXCEPT ![c] = h]
      /\ UNCHANGED <<epoch, log, rights, socket, up, down>>
  BY <1>2, <1>3, AllOnClients DEF Edit, OnClients
<1>5. ClientFits(epoch, log, t, socket[c], up[c], down[c], h) BY <1>1, <1>2, <1>3, <1>4, ClientEdits
<1>6. tab' = Put(tab, c, t) /\ made' = Put(made, c, h) /\ socket' = Put(socket, c, socket[c]) /\ up' = Put(up, c, up[c])
      /\ down' = Put(down, c, down[c])
  BY <1>1, <1>4, AllOnClients DEF OnClients, Put
<1> QED BY <1>4, <1>5, <1>6, TabStep

LEMMA InsertKeeps == ASSUME SessInv, NEW c \in Clients, Insert(c) PROVE SessInv'
<1>1. tab[c] \in TabRow BY BeforeStep
<1>2. tab[c].doc.blocks \subseteq Block BY <1>1 DEF TabRow, State
<1> DEFINE own == {b \in tab[c].doc.blocks : b.id[1] = c}
<1>3. Cardinality(own) \in Nat BY <1>2, BlocksFinite
<1>4. MaxClock \in Nat BY BoundsAssumption
<1>5. NextId(c) = <<c, 1 + Cardinality(own)>> BY DEF NextId
<1>6. PICK b \in Ids(tab[c].doc) : NextId(c)[2] <= MaxClock /\ Edit(c, [blocks |-> {[id |-> NextId(c), on |-> b]}, erased |-> {}])
  BY DEF Insert
<1> HIDE DEF own
<1>7. NextId(c) \in Id BY <1>3, <1>4, <1>5, <1>6 DEF Id
<1>8. b \in Id BY <1>2 DEF Ids, Block
<1>9. PICK i \in Id : i = NextId(c) BY <1>7
<1>10. [id |-> i, on |-> b] \in Block BY <1>8 DEF Block
<1>11. [blocks |-> {[id |-> i, on |-> b]}, erased |-> {}] \in State BY <1>10 DEF State
<1> QED BY <1>6, <1>9, <1>11, EditKeeps

LEMMA EraseKeeps == ASSUME SessInv, NEW c \in Clients, Erase(c) PROVE SessInv'
<1>1. tab[c] \in TabRow BY BeforeStep
<1>2. tab[c].doc.blocks \subseteq Block BY <1>1 DEF TabRow, State
<1>3. PICK b \in Ids(tab[c].doc) : Edit(c, [blocks |-> {}, erased |-> {b}]) BY DEF Erase
<1>4. b \in Id BY <1>2 DEF Ids, Block
<1>5. [blocks |-> {}, erased |-> {b}] \in State BY <1>4 DEF State
<1> QED BY <1>3, <1>5, EditKeeps

\* The provider is left as t with nothing sent, or as b with a request sent.
LEMMA BecomeStep ==
  ASSUME SessInv, NEW c \in Clients, NEW t, Become(c, t), UNCHANGED <<epoch, log, rights, socket>>,
         NEW d, down' = Put(down, c, d), NEW h, made' = Put(made, c, h), ClientFits(epoch, log, t, socket[c], up[c], d, h)
  PROVE  SessInv'
<1>1. socket = Put(socket, c, socket[c]) /\ up = Put(up, c, up[c]) BY BeforeStep
<1>2. tab' = [tab EXCEPT ![c] = t] /\ up' = up BY DEF Become
<1>3. tab' = Put(tab, c, t) /\ socket' = Put(socket, c, socket[c]) /\ up' = Put(up, c, up[c])
  BY <1>1, <1>2, AllOnClients DEF OnClients, Put
<1> QED BY <1>3, TabStep

LEMMA TransmitStep ==
  ASSUME SessInv, NEW c \in Clients, NEW b, NEW type, NEW state, Transmit(c, b, type, state),
         UNCHANGED <<epoch, log, rights, socket>>,
         NEW d, down' = Put(down, c, d), NEW h, made' = Put(made, c, h),
         ClientFits(epoch, log, Asked(b), socket[c], Append(up[c], Request(b, type, state)), d, h)
  PROVE  SessInv'
<1>1. socket = Put(socket, c, socket[c]) BY BeforeStep
<1>2. PICK t : t = Asked(b) OBVIOUS
<1>3. PICK u : u = Append(up[c], Request(b, type, state)) OBVIOUS
<1>4. tab' = [tab EXCEPT ![c] = t] /\ up' = [up EXCEPT ![c] = u]
  BY <1>2, <1>3, AllOnClients DEF OnClients, Transmit, Asked, Request
<1>5. tab' = Put(tab, c, t) /\ socket' = Put(socket, c, socket[c]) /\ up' = Put(up, c, u)
  BY <1>1, <1>4, AllOnClients DEF OnClients, Put
<1>6. ClientFits(epoch, log, t, socket[c], u, d, h) BY <1>2, <1>3
<1> QED BY <1>5, <1>6, TabStep

LEMMA FlushKeeps == ASSUME SessInv, NEW c \in Clients, Flush(c) PROVE SessInv'
<1>1. /\ ClientFits(epoch, log, tab[c], socket[c], up[c], down[c], made[c]) /\ tab[c] \in TabRow /\ log \in Seq(State)
      /\ down = Put(down, c, down[c]) /\ made = Put(made, c, made[c])
  BY BeforeStep
<1>2. UNCHANGED <<epoch, log, rights, socket, down, made>> BY DEF Flush
<1>3. down' = Put(down, c, down[c]) /\ made' = Put(made, c, made[c]) BY <1>1, <1>2
<1> DEFINE t == tab[c]
           quiet == [t EXCEPT !.timer = FALSE]
           b == [t EXCEPT !.timer = FALSE, !.updates = Empty]
<1>4. CASE t.canSend /\ Transmit(c, [quiet EXCEPT !.updates = Empty], "update", t.updates)
  <2>1. [quiet EXCEPT !.updates = Empty] = b OBVIOUS
  <2>2. Transmit(c, b, "update", t.updates) BY <1>4, <2>1
  <2>3. ClientFits(epoch, log, Asked(b), socket[c], Append(up[c], Request(b, "update", t.updates)), down[c], made[c])
    BY <1>1, <1>4, ClientFlushes
  <2> HIDE DEF b, t, quiet
  <2> QED BY <1>2, <1>3, <2>2, <2>3, TransmitStep
<1>5. CASE Become(c, quiet)
  <2>1. ClientFits(epoch, log, quiet, socket[c], up[c], down[c], made[c]) BY <1>1, ClientRests
  <2> HIDE DEF quiet
  <2> QED BY <1>2, <1>3, <1>5, <2>1, BecomeStep
<1> QED BY <1>4, <1>5 DEF Flush

\* What is known of the message that is taken.
LEMMA FirstMessage ==
  ASSUME SessInv, NEW c \in Clients, down[c] # <<>>
  PROVE  /\ down[c][1] \in Downward /\ Truthful(epoch, log, down[c][1]) /\ Tail(down[c]) \in Seq(Downward)
         /\ IsState(down[c][1]) => down[c][1] \in AnswerRow
         /\ down[c][1].type = "hello" => up[c] = <<>> /\ tab[c].status = "syncing"
<1>1. /\ ClientFits(epoch, log, tab[c], socket[c], up[c], down[c], made[c])
      /\ Shaped(tab[c], socket[c], up[c], down[c], made[c])
  BY BeforeStep
<1>2. Tail(down[c]) \in Seq(Downward) /\ 1 \in DOMAIN down[c] BY <1>1, QueueRows
<1>3. down[c][1] \in Downward /\ Truthful(epoch, log, down[c][1]) BY <1>1, <1>2 DEF ClientFits, Shaped
<1>4. IsState(down[c][1]) => down[c][1] \in AnswerRow BY <1>3 DEF Downward, ErrorRow, IsState, StateType
<1>5. down[c][1].type = "hello" => up[c] = <<>> /\ tab[c].status = "syncing"
  BY <1>1, <1>2 DEF ClientFits, QueuesFit, HelloFirst
<1> QED BY <1>2, <1>3, <1>4, <1>5

\* A message of the line that is not a state.
LEMMA FailedKeeps ==
  ASSUME SessInv, NEW c \in Clients, down[c] # <<>>, tab[c].status \in {"syncing", "connected"}, ~ IsState(down[c][1]),
         Failed(c, down[c][1]), down' = Put(down, c, Tail(down[c])), UNCHANGED <<epoch, log, rights, socket>>
  PROVE  SessInv'
<1>1. /\ ClientFits(epoch, log, tab[c], socket[c], up[c], down[c], made[c]) /\ tab[c] \in TabRow /\ log \in Seq(State)
      /\ epoch \in Nat /\ made = Put(made, c, made[c])
  BY BeforeStep
<1>2. made' = Put(made, c, made[c]) BY <1>1 DEF Failed
<1> DEFINE t == tab[c]
           d == Tail(down[c])
<1>3. CASE t.canSend /\ Transmit(c, t, "update", t.doc)
  <2>1. ClientFits(epoch, log, t, socket[c], up[c], d, made[c]) BY <1>1, ClientSkips
  <2>2. ClientFits(epoch, log, Asked(t), socket[c], Append(up[c], Request(t, "update", t.doc)), d, made[c])
    BY <1>1, <1>3, <2>1, ClientTriesAgain
  <2> QED BY <1>2, <1>3, <2>2, TransmitStep
<1>4. CASE Stop(c, "error")
  <2>1. "error" \in Stopped BY DEF Stopped
  <2>2. ClientFits(epoch, log, [t EXCEPT !.status = "error", !.canSend = FALSE], socket[c], up[c], d, made[c])
    BY <1>1, <2>1, ClientStops
  <2>3. Become(c, [t EXCEPT !.status = "error", !.canSend = FALSE]) BY <1>4 DEF Stop
  <2> QED BY <1>2, <2>2, <2>3, BecomeStep
<1> QED BY <1>3, <1>4 DEF Failed

\* The tab meets another epoch.
LEMMA ResetKeeps ==
  ASSUME SessInv, NEW c \in Clients, down[c] # <<>>, IsState(down[c][1]), Reset(c, down[c][1]),
         down' = Put(down, c, Tail(down[c])), UNCHANGED <<epoch, log, rights, socket>>
  PROVE  SessInv'
<1>1. /\ ClientFits(epoch, log, tab[c], socket[c], up[c], down[c], made[c]) /\ tab[c] \in TabRow /\ log \in Seq(State)
      /\ epoch \in Nat /\ made = Put(made, c, made[c])
  BY BeforeStep
<1>2. made' = Put(made, c, made[c]) BY <1>1 DEF Reset
<1>3. "conflict" \in Stopped BY DEF Stopped
<1> DEFINE m == down[c][1]
           d == Tail(down[c])
<1>4. CASE m.committed
  <2>1. IsAck(m) BY <1>4 DEF IsAck
  <2>2. ClientFits(epoch, log, [Acknowledged(tab[c], m) EXCEPT !.status = "conflict", !.canSend = FALSE], socket[c], up[c],
                   d, made[c])
    BY <1>1, <1>3, <2>1, ClientStopsAcknowledged
  <2>3. Become(c, [Acknowledged(tab[c], m) EXCEPT !.status = "conflict", !.canSend = FALSE]) BY <1>4 DEF Reset
  <2> QED BY <1>2, <2>2, <2>3, BecomeStep
<1>5. CASE ~ m.committed
  <2>1. ClientFits(epoch, log, [tab[c] EXCEPT !.status = "conflict", !.canSend = FALSE], socket[c], up[c], d, made[c])
    BY <1>1, <1>3, ClientStops
  <2>2. Become(c, [tab[c] EXCEPT !.status = "conflict", !.canSend = FALSE]) BY <1>5 DEF Reset
  <2> QED BY <1>2, <2>1, <2>2, BecomeStep
<1> QED BY <1>4, <1>5

\* A state of the epoch.
LEMMA SyncKeeps ==
  ASSUME SessInv, NEW c \in Clients, down[c] # <<>>, tab[c].status \in {"syncing", "connected"}, IsState(down[c][1]),
         down[c][1].type # "reset", tab[c].epoch \in {0, down[c][1].epoch}, Sync(c, down[c][1]),
         down' = Put(down, c, Tail(down[c])), UNCHANGED <<epoch, log, rights, socket>>
  PROVE  SessInv'
<1>1. /\ ClientFits(epoch, log, tab[c], socket[c], up[c], down[c], made[c]) /\ tab[c] \in TabRow /\ log \in Seq(State)
      /\ epoch \in Nat /\ made = Put(made, c, made[c])
  BY BeforeStep
<1>2. made' = Put(made, c, made[c]) BY <1>1 DEF Sync
<1> DEFINE m == down[c][1]
           d == Tail(down[c])
<1>3. PICK t : t = Synced(tab[c], m) OBVIOUS
<1>4. ClientFits(epoch, log, t, socket[c], up[c], d, made[c]) /\ \A i \in DOMAIN d : d[i].type # "hello"
  <2>1. m.sequence > 0 BY DEF Sync
  <2> QED BY <1>1, <1>3, <2>1, ClientSyncs
<1>5. m \in AnswerRow /\ (m.type = "hello" => up[c] = <<>>) BY FirstMessage
<1>6. t.status = "connected"
  <2>1. (\A f \in tab[c].inFlight : f[2] <= tab[c].revision) /\ tab[c].saved <= tab[c].revision
    BY <1>1 DEF ClientFits, TabFits
  <2> QED BY <1>1, <1>3, <1>5, <2>1, SyncedTab
<1>7. CASE Resends(c, m) /\ Transmit(c, [t EXCEPT !.updates = Empty, !.inFlight = {}], "update", t.doc)
  <2>1. up[c] = <<>> BY <1>5, <1>7 DEF Resends
  <2>2. PICK b : b = [t EXCEPT !.updates = Empty, !.inFlight = {}] OBVIOUS
  <2>3. ClientFits(epoch, log, Asked(b), socket[c], Append(up[c], Request(b, "update", t.doc)), d, made[c])
    BY <1>1, <1>4, <1>6, <2>1, <2>2, ClientResends
  <2>4. Transmit(c, b, "update", t.doc) BY <1>7, <2>2
  <2> QED BY <1>2, <2>3, <2>4, TransmitStep
<1>8. CASE Become(c, t) BY <1>2, <1>4, <1>8, BecomeStep
<1> QED BY <1>3, <1>7, <1>8 DEF Sync

\* The editor starts a document that has none, or shows what it had.
LEMMA NotesSeed ==
  ASSUME SessInv, NEW c \in Clients, down[c] # <<>>, IsState(down[c][1]), down[c][1].sequence = 0
  PROVE  LET m      == down[c][1]
             t      == [Noted(tab[c], m) EXCEPT !.status = IF m.type = "hello" THEN "syncing" ELSE @]
             blocks == IF Starts(t.doc) = {} THEN {[id |-> NextId(c), on |-> Root]} ELSE {}
             loaded == [t EXCEPT !.doc.blocks = @ \cup blocks]
         IN  NotedAs(tab[c], m, t) /\ NotedAs(tab[c], m, loaded) /\ Starts(loaded.doc) # {}
<1> DEFINE m      == down[c][1]
           t      == [Noted(tab[c], m) EXCEPT !.status = IF m.type = "hello" THEN "syncing" ELSE @]
           blocks == IF Starts(t.doc) = {} THEN {[id |-> NextId(c), on |-> Root]} ELSE {}
           loaded == [t EXCEPT !.doc.blocks = @ \cup blocks]
<1>1. ClientFits(epoch, log, tab[c], socket[c], up[c], down[c], made[c]) /\ tab[c] \in TabRow BY BeforeStep
<1>2. m \in AnswerRow /\ (m.type = "hello" => tab[c].status = "syncing") BY FirstMessage
<1>3. Starts(tab[c].doc) = {} => tab[c].doc.blocks = {} BY <1>1 DEF ClientFits, TabFits
<1>4. PICK k \in TabRow : k = tab[c] BY <1>1
<1>5. m.epoch \in Nat /\ m.sequence \in Nat /\ m.canWrite \in BOOLEAN BY <1>2 DEF AnswerRow
<1>6. /\ t \in TabRow /\ t.status = k.status /\ t.epoch = m.epoch /\ t.sequence = 0 /\ t.canSend = k.canSend
      /\ t.initialized = k.initialized /\ t.updates = k.updates /\ t.revision = k.revision /\ t.saved = k.saved
      /\ t.request = k.request /\ t.inFlight = k.inFlight /\ t.doc = k.doc
  <2> HIDE DEF m
  <2>1. PICK n : n = Noted(k, m) OBVIOUS
  <2>2. /\ n \in TabRow /\ n.status = k.status /\ n.epoch = m.epoch /\ n.sequence = 0 /\ n.canSend = k.canSend
        /\ n.initialized = k.initialized /\ n.updates = k.updates /\ n.revision = k.revision /\ n.saved = k.saved
        /\ n.request = k.request /\ n.inFlight = k.inFlight /\ n.doc = k.doc
    BY <1>5, <2>1 DEF Noted, TabRow, m
  <2>3. t = n BY <1>2, <1>4, <2>1, <2>2 DEF TabRow
  <2> QED BY <2>2, <2>3
<1> HIDE DEF t
<1>7. k.doc \in State BY DEF TabRow
<1>8. Holds(k.doc, k.doc) BY <1>7, StateFacts
<1>9. NotedAs(tab[c], m, t) BY <1>3, <1>4, <1>6, <1>8 DEF NotedAs
<1>10. PICK doc \in State : /\ doc = [t.doc EXCEPT !.blocks = @ \cup blocks]
                            /\ Holds(doc, k.doc) /\ Starts(doc) # {}
  <2>1. CASE Starts(k.doc) = {}
    <3>1. k.doc.blocks = {} BY <1>3, <1>4, <2>1
    <3>2. NextId(c) = <<c, 1>>
      <4>1. PICK own : own = {b \in tab[c].doc.blocks : b.id[1] = c} OBVIOUS
      <4>2. NextId(c) = <<c, 1 + Cardinality(own)>> BY <4>1 DEF NextId
      <4>3. own = {} BY <1>4, <3>1, <4>1
      <4>4. Cardinality(own) = 0 BY <4>3, FS_EmptySet
      <4> QED BY ONLY <4>2, <4>4
    <3>3. <<c, 1>> \in Id BY BoundsAssumption DEF Id
    <3>4. PICK b \in Block : b = [id |-> NextId(c), on |-> Root] BY <3>2, <3>3 DEF Block
    <3>5. b.on = Root BY <3>4
    <3>6. blocks = {b} BY <1>6, <2>1, <3>4
    <3>7. PICK doc : doc = [k.doc EXCEPT !.blocks = @ \cup {b}] OBVIOUS
    <3>8. doc \in State /\ doc.blocks = k.doc.blocks \cup {b} /\ doc.erased = k.doc.erased BY <1>7, <3>7 DEF State
    <3>9. Holds(doc, k.doc) /\ Starts(doc) # {} BY <3>5, <3>8 DEF Holds, Starts
    <3>10. doc = [t.doc EXCEPT !.blocks = @ \cup blocks] BY <1>6, <3>6, <3>7
    <3> QED BY <3>8, <3>9, <3>10
  <2>2. CASE Starts(k.doc) # {}
    <3>1. blocks = {} BY <1>6, <2>2
    <3>2. [k.doc EXCEPT !.blocks = @ \cup {}] = k.doc BY <1>7 DEF State
    <3> QED BY <1>6, <1>7, <1>8, <2>2, <3>1, <3>2
  <2> QED BY <2>1, <2>2
<1>11. loaded = [t EXCEPT !.doc = doc] BY <1>6, <1>10 DEF TabRow
<1> HIDE DEF loaded, blocks
<1>12. /\ loaded \in TabRow /\ loaded.doc = doc /\ loaded.status = t.status /\ loaded.epoch = t.epoch
       /\ loaded.sequence = t.sequence /\ loaded.canSend = t.canSend /\ loaded.initialized = t.initialized
       /\ loaded.updates = t.updates /\ loaded.revision = t.revision /\ loaded.saved = t.saved
       /\ loaded.request = t.request /\ loaded.inFlight = t.inFlight
  BY <1>6, <1>10, <1>11 DEF TabRow
<1>13. NotedAs(tab[c], m, loaded) BY <1>4, <1>6, <1>10, <1>12 DEF NotedAs
<1> QED BY <1>9, <1>10, <1>12, <1>13 DEF t, blocks, loaded

LEMMA SeedKeeps ==
  ASSUME SessInv, NEW c \in Clients, down[c] # <<>>, tab[c].status \in {"syncing", "connected"}, IsState(down[c][1]),
         tab[c].epoch \in {0, down[c][1].epoch}, Seed(c, down[c][1]),
         down' = Put(down, c, Tail(down[c])), UNCHANGED <<epoch, log, rights, socket>>
  PROVE  SessInv'
<1> DEFINE m == down[c][1]
           d == Tail(down[c])
<1>1. /\ ClientFits(epoch, log, tab[c], socket[c], up[c], down[c], made[c]) /\ tab[c] \in TabRow /\ log \in Seq(State)
      /\ epoch \in Nat /\ made = Put(made, c, made[c])
  BY BeforeStep
<1>2. m.sequence = 0 BY DEF Seed
<1>3. m.epoch # 0 BY FirstMessage DEF Truthful
<1>4. PICK t : t = [Noted(tab[c], m) EXCEPT !.status = IF m.type = "hello" THEN "syncing" ELSE @] OBVIOUS
<1>5. PICK loaded : loaded = [t EXCEPT !.doc.blocks = @ \cup (IF Starts(t.doc) = {} THEN {[id |-> NextId(c), on |-> Root]}
                                                              ELSE {})]
  OBVIOUS
<1>6. NotedAs(tab[c], m, t) /\ NotedAs(tab[c], m, loaded) /\ Starts(loaded.doc) # {} BY <1>2, <1>4, <1>5, NotesSeed
<1>7. /\ ClientFits(epoch, log, t, socket[c], up[c], d, made[c])
      /\ ClientFits(epoch, log, loaded, socket[c], up[c], d, made[c]) /\ \A i \in DOMAIN d : d[i].type # "hello"
  BY <1>1, <1>2, <1>6, ClientNotes
<1>8. \/ Become(c, t) /\ UNCHANGED made
      \/ Become(c, loaded) /\ UNCHANGED made
      \/ /\ Transmit(c, [loaded EXCEPT !.seeding = TRUE, !.revision = @ + 1], "seed", loaded.doc)
         /\ made' = [made EXCEPT ![c] = Append(@, loaded.doc)]
  BY <1>4, <1>5 DEF Seed
<1>9. CASE Become(c, t) /\ UNCHANGED made
  <2>1. made' = Put(made, c, made[c]) BY <1>1, <1>9
  <2> QED BY <1>7, <1>9, <2>1, BecomeStep
<1>10. CASE Become(c, loaded) /\ UNCHANGED made
  <2>1. made' = Put(made, c, made[c]) BY <1>1, <1>10
  <2> QED BY <1>7, <1>10, <2>1, BecomeStep
<1>11. CASE /\ Transmit(c, [loaded EXCEPT !.seeding = TRUE, !.revision = @ + 1], "seed", loaded.doc)
            /\ made' = [made EXCEPT ![c] = Append(@, loaded.doc)]
  <2>1. PICK b : b = [loaded EXCEPT !.seeding = TRUE, !.revision = @ + 1] OBVIOUS
  <2>2. PICK h : h = Append(made[c], loaded.doc) OBVIOUS
  <2>3. loaded.status # "disconnected" /\ loaded.epoch # 0 BY <1>3, <1>6 DEF NotedAs
  <2>4. ClientFits(epoch, log, Asked(b), socket[c], Append(up[c], Request(b, "seed", loaded.doc)), d, h)
    BY <1>1, <1>6, <1>7, <2>1, <2>2, <2>3, ClientSeeds
  <2>5. Transmit(c, b, "seed", loaded.doc) BY <1>11, <2>1
  <2>6. made' = Put(made, c, h) BY <1>11, <2>2, AllOnClients DEF OnClients, Put
  <2> QED BY <2>4, <2>5, <2>6, TransmitStep
<1> QED BY <1>8, <1>9, <1>10, <1>11

LEMMA ReceiveKeeps == ASSUME SessInv, NEW c \in Clients, Receive(c) PROVE SessInv'
<1> DEFINE m == down[c][1]
<1>1. /\ down[c] # <<>> /\ tab[c].status \in {"syncing", "connected"} /\ down' = [down EXCEPT ![c] = Tail(@)]
      /\ UNCHANGED <<epoch, log, rights, socket>>
      /\ \/ ~ IsState(m) /\ Failed(c, m)
         \/ IsState(m) /\ Reset(c, m)
         \/ /\ IsState(m) /\ m.type # "reset" /\ tab[c].epoch \in {0, m.epoch}
            /\ Sync(c, m) \/ Seed(c, m)
  BY DEF Receive, IsState, StateType
<1>2. down' = Put(down, c, Tail(down[c])) BY <1>1, AllOnClients DEF OnClients, Put
<1>3. CASE ~ IsState(m) /\ Failed(c, m) BY <1>1, <1>2, <1>3, FailedKeeps
<1>4. CASE IsState(m) /\ Reset(c, m) BY <1>1, <1>2, <1>4, ResetKeeps
<1>5. CASE IsState(m) /\ m.type # "reset" /\ tab[c].epoch \in {0, m.epoch} /\ Sync(c, m) BY <1>1, <1>2, <1>5, SyncKeeps
<1>6. CASE IsState(m) /\ m.type # "reset" /\ tab[c].epoch \in {0, m.epoch} /\ Seed(c, m) BY <1>1, <1>2, <1>6, SeedKeeps
<1> QED BY <1>1, <1>3, <1>4, <1>5, <1>6

----------------
(* What follows.                                                              *)

LEMMA InitFits == ASSUME Init PROVE SessInv
<1>1. epoch = 1 /\ log = <<>> /\ rights \subseteq Clients BY DEF Init
<1>2. MaxEpoch \in Nat \ {0} BY BoundsAssumption
<1>3. LogFits(epoch, log) BY <1>1, <1>2 DEF LogFits, Final, Complete, Empty
<1>4. ClientFits(1, <<>>, NewTab, Closed, <<>>, <<>>, <<>>)
  <2>1. PICK t : t = NewTab OBVIOUS
  <2>2. Empty \in State BY DEF Empty, State
  <2>3. /\ t \in TabRow /\ t.status = "disconnected" /\ t.doc = Empty /\ t.epoch = 0 /\ t.sequence = 0 /\ ~ t.canSend
        /\ ~ t.initialized /\ t.revision = 0 /\ t.saved = 0 /\ t.request = 0 /\ t.inFlight = {}
    BY <2>1, <2>2 DEF NewTab, TabRow, Status
  <2>4. PICK s : s = Closed OBVIOUS
  <2>5. s \in SocketRow /\ ~ s.open BY <2>4 DEF Closed, SocketRow
  <2>6. Starts(t.doc) = {} /\ t.doc.blocks = {} BY <2>3 DEF Starts, Empty
  <2>7. Shaped(t, s, <<>>, <<>>, <<>>) BY <2>3, <2>5 DEF Shaped
  <2>8. TabFits(1, t, <<>>) BY <2>3, <2>6 DEF TabFits
  <2>9. QueuesFit(t, <<>>, <<>>) BY DEF QueuesFit, Requested, InTurn, Answered, HelloFirst
  <2>10. Unplugged(t, s, <<>>, <<>>) BY <2>5 DEF Unplugged
  <2>11. Continues(t, s, <<>>) /\ Seen(1, <<>>, t) /\ Followed(1, <<>>, s) BY <2>3, <2>5 DEF Continues, Seen, Followed
  <2>12. Kept(1, <<>>, t, <<>>, <<>>, <<>>) BY <2>3 DEF Kept
  <2>13. ClientFits(1, <<>>, t, s, <<>>, <<>>, <<>>)
    BY <2>7, <2>8, <2>9, <2>10, <2>11, <2>12 DEF ClientFits
  <2> QED BY <2>1, <2>4, <2>13
<1>5. /\ tab = [c \in Clients |-> NewTab] /\ socket = [c \in Clients |-> Closed] /\ up = [c \in Clients |-> <<>>]
      /\ down = [c \in Clients |-> <<>>] /\ made = [c \in Clients |-> <<>>]
  BY DEF Init
<1>6. \A c \in Clients : tab[c] = NewTab /\ socket[c] = Closed /\ up[c] = <<>> /\ down[c] = <<>> /\ made[c] = <<>>
  BY <1>5
<1>7. \A c \in Clients : ClientFits(epoch, log, tab[c], socket[c], up[c], down[c], made[c]) BY <1>1, <1>4, <1>6
<1>8. /\ tab = [c \in Clients |-> tab[c]] /\ socket = [c \in Clients |-> socket[c]]
      /\ up = [c \in Clients |-> up[c]] /\ down = [c \in Clients |-> down[c]] /\ made = [c \in Clients |-> made[c]]
  BY <1>5
<1> QED BY <1>1, <1>3, <1>7, <1>8 DEF SessInv

\* No handler breaks what tabs and server know of each other.
LEMMA StepKeeps == ASSUME SessInv, [Next]_vars PROVE SessInv'
<1>1. CASE Replace BY <1>1, ReplaceKeeps
<1>2. CASE \E c \in Clients : Step(c)
  <2>1. PICK c \in Clients : Step(c) BY <1>2
  <2> QED BY <2>1, HandleKeeps, PollKeeps, ConnectKeeps, DropKeeps, FlushKeeps, ReceiveKeeps, InsertKeeps, EraseKeeps,
             TurnKeeps, LeaveKeeps DEF Step
<1>3. CASE UNCHANGED vars
  <2>1. /\ epoch' = epoch /\ log' = log /\ rights' = rights /\ tab' = tab /\ socket' = socket
        /\ up' = up /\ down' = down /\ made' = made
    BY <1>3 DEF vars
  <2> QED BY <2>1 DEF SessInv
<1> QED BY <1>1, <1>2, <1>3 DEF Next

LEMMA FitsTypes == ASSUME SessInv PROVE TypeOK
<1>1. epoch \in 1 .. MaxEpoch /\ log \in Seq(State) /\ rights \subseteq Clients BY DEF SessInv, LogFits
<1>2. MaxEpoch \in Nat BY BoundsAssumption
<1>3. ASSUME NEW c \in Clients PROVE tab[c] \in Tab /\ Len(made[c]) = tab[c].revision
  <2>1. /\ tab[c] \in TabRow /\ TabFits(epoch, tab[c], made[c]) BY BeforeStep DEF ClientFits
  <2>2. tab[c].epoch \in 0 .. MaxEpoch BY <1>1, <1>2, <2>1 DEF TabFits, TabRow
  <2>3. tab[c] \in Tab BY <2>1, <2>2 DEF TabRow, Tab
  <2> QED BY <2>1, <2>3 DEF TabFits
<1>4. tab \in [Clients -> Tab] BY <1>3 DEF SessInv
<1> QED BY <1>1, <1>3, <1>4 DEF TypeOK

LEMMA FitsCurrent == ASSUME SessInv PROVE TabsAreCurrent
<1>1. SeenIsKept
  <2> SUFFICES ASSUME NEW c \in Clients, tab[c].epoch = epoch, tab[c].sequence > 0
               PROVE  Holds(tab[c].doc, log[tab[c].sequence])
    BY DEF SeenIsKept
  <2>1. Seen(epoch, log, tab[c]) BY BeforeStep DEF ClientFits
  <2> QED BY <2>1 DEF Seen
<1>2. DeltasContinue
  <2> SUFFICES ASSUME NEW c \in Clients, down[c] # <<>>, tab[c].status \in {"syncing", "connected"},
                      OutOfOrder(tab[c], down[c][1])
               PROVE  FALSE
    BY DEF DeltasContinue
  <2> DEFINE m == down[c][1]
  <2>1. /\ Continues(tab[c], socket[c], down[c]) /\ Shaped(tab[c], socket[c], up[c], down[c], made[c]) /\ tab[c] \in TabRow
    BY BeforeStep DEF ClientFits
  <2>2. 1 \in DOMAIN down[c] /\ \A k \in DOMAIN down[c] : ~ k < 1 BY <2>1 DEF Shaped
  <2>3. m \in Downward BY FirstMessage
  <2>4. m.from # 0 /\ IsState(m) BY <2>3 DEF OutOfOrder, Downward, AnswerRow, ErrorRow, IsState
  <2>5. Reached(tab[c], down[c], 1, m.epoch, m.from) BY <2>1, <2>2, <2>4 DEF Continues
  <2>6. tab[c].epoch = m.epoch /\ tab[c].sequence = m.from /\ tab[c].initialized BY <2>2, <2>4, <2>5 DEF Reached
  <2> QED BY <2>6 DEF OutOfOrder
<1>3. LatestComplete
  <2>1. LogFits(epoch, log) BY DEF SessInv
  <2> QED BY <2>1 DEF LogFits, LatestComplete, Latest, Final
<1> QED BY <1>1, <1>2, <1>3 DEF TabsAreCurrent

LEMMA FitsSaved == ASSUME SessInv PROVE SavedIsCommitted
<1> SUFFICES ASSUME NEW c \in Clients, tab[c].epoch = epoch, SaveState(tab[c]) = "confirmed",
                    NEW n \in 1 .. tab[c].revision
             PROVE  Holds(Latest, made[c][n])
  BY DEF SavedIsCommitted, Done
<1> DEFINE t == tab[c]
<1>1. /\ t \in TabRow /\ ClientFits(epoch, log, t, socket[c], up[c], down[c], made[c]) /\ Latest = Final(log)
      /\ Shaped(t, socket[c], up[c], down[c], made[c])
  BY BeforeStep
<1>2. t.inFlight = {} /\ t.revision <= t.saved
  <2>1. t.status \in Status /\ t.revision \in Nat /\ t.saved \in Nat BY <1>1 DEF TabRow
  <2> HIDE DEF t
  <2>2. SaveState(t) = "confirmed" BY DEF t
  <2>3. t.status \notin Stopped /\ t.status \notin {"disconnected", "syncing"} /\ t.inFlight = {} /\ ~ Unsaved(t)
    BY <2>1, <2>2 DEF SaveState, Status, Stopped
  <2> QED BY <2>1, <2>3 DEF Unsaved
<1>3. DOMAIN up[c] = {} BY <1>1, <1>2 DEF ClientFits, QueuesFit, Requested
<1>4. Kept(epoch, log, t, up[c], down[c], made[c]) BY <1>1 DEF ClientFits
<1>5. ~ Orphaned(t, up[c], down[c]) BY <1>2 DEF Orphaned
<1>6. Accounted(log, t, up[c], made[c]) BY <1>4, <1>5 DEF Kept
<1>7. Sent(t, n)
  <2>1. t.revision \in Nat /\ t.saved \in Nat BY <1>1 DEF TabRow
  <2> QED BY <1>2, <2>1 DEF Sent
<1>8. Arrives(log, up[c], Empty, made[c][n]) BY <1>6, <1>7 DEF Accounted
<1>9. made[c][n] \in State
  <2>1. made[c] \in Seq(State) BY <1>1 DEF Shaped
  <2>2. Len(made[c]) = t.revision BY <1>1 DEF ClientFits, TabFits
  <2> QED BY <2>1, <2>2
<1>10. Empty.blocks = {} /\ Empty.erased = {} BY DEF Empty
<1>11. Holds(Final(log), made[c][n]) BY <1>3, <1>8, <1>10 DEF Arrives, Holds
<1> QED BY <1>1, <1>11

\* What a tab, its socket, the messages between them and the server know of each
\* other fits at every moment: the invariant that the theorems below rest on.
THEOREM SessionFits == Spec => []SessInv
<1>1. Init => SessInv BY InitFits
<1>2. SessInv /\ [Next]_vars => SessInv' BY StepKeeps
<1> QED BY <1>1, <1>2, PTL DEF Spec

\* Types (provider.ts and collaboration.go): the number of a tab's revisions is
\* the number of things done in it.
THEOREM SessionTypes == Spec => []TypeOK
<1>1. SessInv => TypeOK BY FitsTypes
<1> QED BY <1>1, SessionFits, PTL

\* Whatever is lost, reordered by a new connection or answered late: a tab shows
\* at least what the server had committed by the sequence it believes to be at,
\* no delta ever reaches it that does not continue what it holds, and a committed
\* state waits for nothing (receive, collaborationStateSince, mergeUpdate).
THEOREM TabsStayCurrent == Spec => []TabsAreCurrent
<1>1. SessInv => TabsAreCurrent BY FitsCurrent
<1> QED BY <1>1, SessionFits, PTL

\* A tab that says it is saved, in the epoch of the document, has lost nothing:
\* everything done in it is in the committed state (the saveState of provider.ts).
THEOREM SavedMeansCommitted == Spec => []SavedIsCommitted
<1>1. SessInv => SavedIsCommitted BY FitsSaved
<1> QED BY <1>1, SessionFits, PTL

----------------
(* While no connection breaks.                                                *)

\* A tab that still listens, and the messages that make it stop.
Live(t)      == t.status \in {"syncing", "connected"}
Refusal(m)   == m.type \notin {"hello", "sync", "ack"}
Unrefused(d) == \A i \in DOMAIN d : ~Refusal(d[i])

\* What is in the log, or is with the server once it has taken k messages.
Reachable(lg, u, k, id) == id \in Ids(Final(lg)) \/ \E i \in DOMAIN u : i <= k /\ id \in Ids(u[i].state)
\* A state that may follow them: nothing in it waits for what is not there yet.
Founded(lg, u, k, x) ==
  /\ \A b \in x.blocks :
       /\ \A n \in 1 .. b.id[2] - 1 : Reachable(lg, u, k, <<b.id[1], n>>) \/ <<b.id[1], n>> \in Ids(x)
       /\ b.on = Root \/ Reachable(lg, u, k, b.on) \/ b.on \in Ids(x)
  /\ \A id \in x.erased : Reachable(lg, u, k, id) \/ id \in Ids(x)
\* Each message may follow those before it, and the tab has nothing else.
Sequenced(lg, t, u) ==
  /\ \A k \in DOMAIN u : Founded(lg, u, k - 1, u[k].state)
  /\ Founded(lg, u, Len(u), t.updates)
  /\ Arrives(lg, u, t.updates, t.doc)
Gapless(e, lg, t, u, d) == Live(t) /\ Unrefused(d) /\ t.epoch = e => Sequenced(lg, t, u)

\* A tab that was never told anything has done nothing.
Unread(t, d) ==
  /\ t.epoch = 0 => t.doc = Empty /\ t.updates = Empty /\ t.inFlight = {} /\ ~t.seeding
  /\ t.status = "disconnected" => t.epoch = 0
  /\ \A i \in DOMAIN d : d[i].type = "hello" => t.epoch = 0

\* Only a seed starts a document, and with one block.
OneStart(x)    == \A a, b \in Starts(x) : a = b
Started(t, u)  == /\ Starts(t.updates) = {}
                  /\ \A i \in DOMAIN u : IF u[i].type = "seed" THEN OneStart(u[i].state) ELSE Starts(u[i].state) = {}

\* What is asked is on its way, or the answer is; nobody is told that a part is missing
\* unless he was told before to stop.
Awaited(t, u, d) ==
  Live(t) => \A f \in t.inFlight : /\ f[1] # 0
                                   /\ (\E i \in DOMAIN u : u[i].id = f[1]) \/ \E i \in DOMAIN d : d[i].id = f[1]
Warned(t, d) ==
  Live(t) => \A i \in DOMAIN d : d[i].type = "missing_state" => \E j \in DOMAIN d : j < i /\ Refusal(d[j])
Tells(e, lg, m) ==
  /\ m.type \in {"hello", "sync"} => m.id = 0
  /\ m.type = "ack" => m.sequence > 0
  /\ IsState(m) /\ m.epoch = e => Holds(Final(lg), m.state)

CalmClient(e, lg, t, u, d) ==
  /\ Gapless(e, lg, t, u, d) /\ Unread(t, d) /\ Started(t, u) /\ Awaited(t, u, d) /\ Warned(t, d)
  /\ \A i \in DOMAIN d : Tells(e, lg, d[i])

\* A block is its author's, who numbers them without a gap.
Own(c, x)       == {b \in x.blocks : b.id[1] = c}
Numbered(c, t)  == /\ IsFiniteSet(Own(c, t.doc))
                   /\ \A n \in 1 .. Cardinality(Own(c, t.doc)) : <<c, n>> \in Ids(t.doc)
                   /\ \A b \in Own(c, t.doc) : b.id[2] \in 1 .. Cardinality(Own(c, t.doc))
Signed(tabs, x) == \A b \in x.blocks : b \in tabs[b.id[1]].doc.blocks
SignedQueues(tabs, t, u, d) ==
  /\ Signed(tabs, t.doc) /\ Signed(tabs, t.updates)
  /\ \A i \in DOMAIN u : Signed(tabs, u[i].state)
  /\ \A i \in DOMAIN d : IsState(d[i]) => Signed(tabs, d[i].state)

Calm ==
  /\ OneStart(Final(log)) /\ Signed(tab, Final(log))
  /\ \A c \in Clients : /\ CalmClient(epoch, log, tab[c], up[c], down[c]) /\ Numbered(c, tab[c])
                        /\ SignedQueues(tab, tab[c], up[c], down[c])
CalmInv == drops \in Nat /\ (drops = 0 => Calm)

LEMMA FoundedGrows ==
  ASSUME NEW lg, NEW lg2, NEW u, NEW k, NEW x, Holds(Final(lg2), Final(lg)), Founded(lg, u, k, x)
  PROVE  Founded(lg2, u, k, x)
<1>1. \A id : Reachable(lg, u, k, id) => Reachable(lg2, u, k, id) BY DEF Reachable, Holds, Ids
<1> QED BY <1>1 DEF Founded

\* What follows the log itself is complete with it.
LEMMA FoundedIsWhole ==
  ASSUME NEW lg, NEW u, DOMAIN u \subseteq Nat \ {0}, NEW x, Complete(Final(lg)), Founded(lg, u, 0, x)
  PROVE  Complete(Merge(Final(lg), x))
<1> DEFINE all == Merge(Final(lg), x)
<1>1. \A id : id \in Ids(Final(lg)) \/ id \in Ids(x) <=> id \in Ids(all) BY DEF Ids, Merge
<1>2. \A id : Reachable(lg, u, 0, id) => id \in Ids(Final(lg)) BY DEF Reachable
<1>3. all.blocks = Final(lg).blocks \cup x.blocks /\ all.erased = Final(lg).erased \cup x.erased BY DEF Merge
<1> HIDE DEF all
<1>4. ASSUME NEW b \in all.blocks
      PROVE  (\A n \in 1 .. b.id[2] - 1 : <<b.id[1], n>> \in Ids(all)) /\ b.on \in Ids(all) \cup {Root}
  <2>1. CASE b \in Final(lg).blocks BY <1>1, <2>1 DEF Complete
  <2>2. CASE b \in x.blocks BY <1>1, <1>2, <2>2 DEF Founded
  <2> QED BY <1>3, <1>4, <2>1, <2>2
<1>5. all.erased \subseteq Ids(all) BY <1>1, <1>2, <1>3 DEF Complete, Founded
<1> QED BY <1>4, <1>5 DEF Complete, all

\* The server has taken the first message, and the log holds what it carried.
LEMMA FoundedServed ==
  ASSUME NEW lg, NEW u, NEW w, Shorter(u, w), Holds(Final(lg), u[1].state), NEW k \in Nat, NEW x, Founded(lg, u, k + 1, x)
  PROVE  Founded(lg, w, k, x)
<1>1. ASSUME NEW id, Reachable(lg, u, k + 1, id) PROVE Reachable(lg, w, k, id)
  <2>1. CASE id \in Ids(Final(lg)) BY <2>1 DEF Reachable
  <2>2. CASE \E i \in DOMAIN u : i <= k + 1 /\ id \in Ids(u[i].state)
    <3>1. PICK i \in DOMAIN u : i <= k + 1 /\ id \in Ids(u[i].state) BY <2>2
    <3>2. CASE i = 1 BY <3>1, <3>2 DEF Reachable, Holds, Ids
    <3>3. CASE i # 1
      <4>1. i - 1 \in DOMAIN w /\ w[i - 1] = u[i] /\ i - 1 <= k BY <3>1, <3>3 DEF Shorter
      <4> QED BY <3>1, <4>1 DEF Reachable
    <3> QED BY <3>2, <3>3
  <2> QED BY <1>1, <2>1, <2>2 DEF Reachable
<1> QED BY <1>1 DEF Founded

LEMMA SequencedServed ==
  ASSUME NEW lg, NEW t, NEW u, NEW w, Shorter(u, w), Holds(Final(lg), u[1].state), Sequenced(lg, t, u)
  PROVE  Sequenced(lg, t, w)
<1>1. ASSUME NEW k \in DOMAIN w PROVE Founded(lg, w, k - 1, w[k].state)
  <2>1. k \in Nat \ {0} /\ k + 1 \in DOMAIN u /\ w[k] = u[k + 1] BY DEF Shorter
  <2>2. PICK n \in Nat : n = k - 1 BY <2>1
  <2>3. n + 1 = (k + 1) - 1 BY <2>1, <2>2
  <2>4. Founded(lg, u, n + 1, w[k].state) BY <2>1, <2>3 DEF Sequenced
  <2> QED BY <2>2, <2>4, FoundedServed
<1>2. Founded(lg, w, Len(w), t.updates)
  <2>1. Len(w) \in Nat /\ Len(u) = Len(w) + 1 BY DEF Shorter
  <2> QED BY <2>1, FoundedServed DEF Sequenced
<1>3. Arrives(lg, w, t.updates, t.doc) BY ArrivesCommitted DEF Sequenced
<1> QED BY <1>1, <1>2, <1>3 DEF Sequenced

\* The tab has sent what it had, or the whole of its document.
LEMMA SequencedAsks ==
  ASSUME NEW lg, NEW t, NEW u, NEW x, NEW w, NEW r, Longer(u, x, w), r.updates = Empty,
         \A k \in DOMAIN u : Founded(lg, u, k - 1, u[k].state),
         Founded(lg, u, Len(u), x.state), Arrives(lg, u, x.state, r.doc)
  PROVE  Sequenced(lg, r, w)
<1>1. ASSUME NEW n \in Nat, n <= Len(u), NEW y, Founded(lg, u, n, y) PROVE Founded(lg, w, n, y)
  <2>1. \A id : Reachable(lg, u, n, id) => Reachable(lg, w, n, id) BY DEF Reachable, Longer
  <2> QED BY <1>1, <2>1 DEF Founded
<1>2. ASSUME NEW k \in DOMAIN w PROVE Founded(lg, w, k - 1, w[k].state)
  <2>1. CASE k \in DOMAIN u
    <3>1. k - 1 \in Nat /\ k - 1 <= Len(u) /\ w[k] = u[k] BY <2>1 DEF Longer
    <3> QED BY <1>1, <2>1, <3>1
  <2>2. CASE k = Len(u) + 1
    <3>1. k - 1 = Len(u) /\ Len(u) \in Nat /\ w[k] = x BY <2>2 DEF Longer
    <3> QED BY <1>1, <3>1
  <2> QED BY <1>2, <2>1, <2>2 DEF Longer
<1>3. Founded(lg, w, Len(w), r.updates) BY DEF Founded, Empty
<1>4. Arrives(lg, w, r.updates, r.doc) BY ArrivesFlushed
<1> QED BY <1>2, <1>3, <1>4 DEF Sequenced

\* The log grows, or the epoch ends.
LEMMA CalmGrown ==
  ASSUME NEW e \in Nat, NEW e2 \in Nat, NEW lg, NEW lg2, LogGrows(e, lg, e2, lg2), NEW t, t.epoch \in Nat, t.epoch <= e,
         NEW u, NEW d, \A i \in DOMAIN d : IsState(d[i]) => d[i].epoch \in Nat /\ d[i].epoch <= e, CalmClient(e, lg, t, u, d)
  PROVE  CalmClient(e2, lg2, t, u, d)
<1>1. Gapless(e, lg, t, u, d) /\ Unread(t, d) /\ Started(t, u) /\ Awaited(t, u, d) /\ Warned(t, d)
      /\ \A i \in DOMAIN d : Tells(e, lg, d[i])
  BY DEF CalmClient
<1>2. e2 = e => Holds(Final(lg2), Final(lg)) BY DEF LogGrows
<1>3. e2 = e \/ e2 > e BY DEF LogGrows
<1>4. Gapless(e2, lg2, t, u, d)
  <2> SUFFICES ASSUME Live(t), Unrefused(d), t.epoch = e2 PROVE Sequenced(lg2, t, u) BY DEF Gapless
  <2>1. e2 = e /\ Holds(Final(lg2), Final(lg)) BY <1>2, <1>3
  <2>2. Sequenced(lg, t, u) BY <1>1, <2>1 DEF Gapless
  <2>3. \A k \in DOMAIN u : Founded(lg2, u, k - 1, u[k].state)
    <3> SUFFICES ASSUME NEW k \in DOMAIN u PROVE Founded(lg2, u, k - 1, u[k].state)
      OBVIOUS
    <3>1. PICK n : n = k - 1 OBVIOUS
    <3>2. Founded(lg, u, n, u[k].state) BY <2>2, <3>1 DEF Sequenced
    <3>3. Founded(lg2, u, n, u[k].state) BY <2>1, <3>2, FoundedGrows
    <3> QED BY <3>1, <3>3
  <2>4. Founded(lg2, u, Len(u), t.updates) BY <2>1, <2>2, FoundedGrows DEF Sequenced
  <2>5. Arrives(lg2, u, t.updates, t.doc) BY <2>1, <2>2, GrownArrives DEF Sequenced
  <2> QED BY <2>3, <2>4, <2>5 DEF Sequenced
<1>5. ASSUME NEW i \in DOMAIN d PROVE Tells(e2, lg2, d[i])
  <2>1. Tells(e, lg, d[i]) BY <1>1
  <2>2. ASSUME IsState(d[i]), d[i].epoch = e2 PROVE Holds(Final(lg2), d[i].state)
    <3>1. e2 = e /\ Holds(Final(lg2), Final(lg)) BY <1>2, <1>3, <2>2
    <3> QED BY <2>1, <2>2, <3>1 DEF Tells, Holds
  <2> QED BY <2>1, <2>2 DEF Tells
<1> QED BY <1>1, <1>4, <1>5 DEF CalmClient

\* The server tells something.
LEMMA CalmTold ==
  ASSUME NEW e, NEW lg, NEW t, NEW u, NEW d, NEW m, NEW v, Longer(d, m, v), CalmClient(e, lg, t, u, d), Tells(e, lg, m),
         m.type = "hello" => t.epoch = 0, m.type = "missing_state" /\ Live(t) => ~ Unrefused(d)
  PROVE  CalmClient(e, lg, t, u, v)
<1>1. Gapless(e, lg, t, u, d) /\ Unread(t, d) /\ Started(t, u) /\ Awaited(t, u, d) /\ Warned(t, d)
      /\ \A i \in DOMAIN d : Tells(e, lg, d[i])
  BY DEF CalmClient
<1>2. \A i \in DOMAIN v : (i \in DOMAIN d /\ v[i] = d[i]) \/ (i = Len(d) + 1 /\ v[i] = m) BY DEF Longer
<1>3. \A i \in DOMAIN d : i \in DOMAIN v /\ v[i] = d[i] /\ i < Len(d) + 1 BY DEF Longer
<1>4. Unrefused(v) => Unrefused(d) BY <1>3 DEF Unrefused
<1>5. Gapless(e, lg, t, u, v) BY <1>1, <1>4 DEF Gapless
<1>6. Unread(t, v) BY <1>1, <1>2 DEF Unread
<1>7. Awaited(t, u, v) BY <1>1, <1>3 DEF Awaited
<1>8. Warned(t, v)
  <2> SUFFICES ASSUME Live(t), NEW i \in DOMAIN v, v[i].type = "missing_state" PROVE \E j \in DOMAIN v : j < i /\ Refusal(v[j])
    BY DEF Warned
  <2>1. CASE i \in DOMAIN d /\ v[i] = d[i]
    <3>1. PICK j \in DOMAIN d : j < i /\ Refusal(d[j]) BY <1>1, <2>1 DEF Warned
    <3> QED BY <1>3, <3>1
  <2>2. CASE i = Len(d) + 1 /\ v[i] = m
    <3>1. PICK j \in DOMAIN d : Refusal(d[j]) BY <2>2 DEF Unrefused
    <3> QED BY <1>3, <2>2, <3>1
  <2> QED BY <1>2, <2>1, <2>2
<1>9. \A i \in DOMAIN v : Tells(e, lg, v[i]) BY <1>1, <1>2
<1> QED BY <1>1, <1>5, <1>6, <1>7, <1>8, <1>9 DEF CalmClient

\* The server has taken the first request and answered it.
LEMMA CalmServed ==
  ASSUME NEW e, NEW lg, NEW t, NEW u, NEW w, NEW d, Shorter(u, w), CalmClient(e, lg, t, u, d),
         \E i \in DOMAIN d : d[i].id = u[1].id,
         Live(t) /\ Unrefused(d) /\ t.epoch = e => Holds(Final(lg), u[1].state)
  PROVE  CalmClient(e, lg, t, w, d)
<1>1. Gapless(e, lg, t, u, d) /\ Unread(t, d) /\ Started(t, u) /\ Awaited(t, u, d) /\ Warned(t, d)
      /\ \A i \in DOMAIN d : Tells(e, lg, d[i])
  BY DEF CalmClient
<1>2. \A i \in DOMAIN w : i + 1 \in DOMAIN u /\ w[i] = u[i + 1] BY DEF Shorter
<1>3. \A i \in DOMAIN u : i = 1 \/ (i - 1 \in DOMAIN w /\ w[i - 1] = u[i]) BY DEF Shorter
<1>4. Gapless(e, lg, t, w, d)
  <2> SUFFICES ASSUME Live(t), Unrefused(d), t.epoch = e PROVE Sequenced(lg, t, w) BY DEF Gapless
  <2>1. Sequenced(lg, t, u) /\ Holds(Final(lg), u[1].state) BY <1>1 DEF Gapless
  <2> QED BY <2>1, SequencedServed
<1>5. Started(t, w) BY <1>1, <1>2 DEF Started
<1>6. Awaited(t, w, d)
  <2> SUFFICES ASSUME Live(t), NEW f \in t.inFlight
               PROVE  f[1] # 0 /\ ((\E i \in DOMAIN w : w[i].id = f[1]) \/ \E i \in DOMAIN d : d[i].id = f[1])
    BY DEF Awaited
  <2>1. f[1] # 0 /\ ((\E i \in DOMAIN u : u[i].id = f[1]) \/ \E i \in DOMAIN d : d[i].id = f[1]) BY <1>1 DEF Awaited
  <2>2. ASSUME NEW i \in DOMAIN u, u[i].id = f[1]
        PROVE  (\E j \in DOMAIN w : w[j].id = f[1]) \/ \E j \in DOMAIN d : d[j].id = f[1]
    <3>1. CASE i = 1 BY <2>2, <3>1
    <3>2. CASE i - 1 \in DOMAIN w /\ w[i - 1] = u[i] BY <2>2, <3>2
    <3> QED BY <1>3, <3>1, <3>2
  <2> QED BY <2>1, <2>2
<1> QED BY <1>1, <1>4, <1>5, <1>6 DEF CalmClient

\* What a tab that has stopped keeps.
Rests(t, r) == /\ r.status \in Stopped /\ r.epoch = t.epoch /\ r.doc = t.doc /\ r.updates = t.updates
               /\ r.seeding = t.seeding /\ r.inFlight \subseteq t.inFlight
LEMMA CalmStops ==
  ASSUME NEW e, NEW lg, NEW t, NEW r, NEW u, NEW d, NEW w, NEW v, CalmClient(e, lg, t, u, d), Rests(t, r),
         \A i \in DOMAIN v : \E j \in DOMAIN d : v[i] = d[j], \A i \in DOMAIN w : \E j \in DOMAIN u : w[i] = u[j]
  PROVE  CalmClient(e, lg, r, w, v)
<1>1. Unread(t, d) /\ Started(t, u) /\ \A i \in DOMAIN d : Tells(e, lg, d[i]) BY DEF CalmClient
<1>2. ~ Live(r) /\ r.status # "disconnected" BY DEF Live, Rests, Stopped
<1>3. Gapless(e, lg, r, w, v) /\ Awaited(r, w, v) /\ Warned(r, v) BY <1>2 DEF Gapless, Awaited, Warned
<1>4. Unread(r, v)
  <2>1. r.epoch = 0 => r.doc = Empty /\ r.updates = Empty /\ r.inFlight = {} /\ ~ r.seeding
    <3> SUFFICES ASSUME r.epoch = 0 PROVE r.doc = Empty /\ r.updates = Empty /\ r.inFlight = {} /\ ~ r.seeding
      OBVIOUS
    <3>1. t.epoch = 0 /\ r.inFlight \subseteq t.inFlight BY DEF Rests
    <3>2. t.doc = Empty /\ t.updates = Empty /\ t.inFlight = {} /\ ~ t.seeding BY <1>1, <3>1 DEF Unread
    <3> QED BY <3>1, <3>2 DEF Rests
  <2>2. \A i \in DOMAIN v : v[i].type = "hello" => r.epoch = 0 BY <1>1 DEF Unread, Rests
  <2> QED BY <1>2, <2>1, <2>2 DEF Unread
<1>5. Started(r, w)
  <2>1. Starts(r.updates) = {} BY <1>1 DEF Started, Rests
  <2>2. \A i \in DOMAIN w : IF w[i].type = "seed" THEN OneStart(w[i].state) ELSE Starts(w[i].state) = {} BY <1>1 DEF Started
  <2> QED BY <2>1, <2>2 DEF Started
<1>6. \A i \in DOMAIN v : Tells(e, lg, v[i]) BY <1>1
<1> QED BY <1>3, <1>4, <1>5, <1>6 DEF CalmClient

\* The tab has taken the state of the first message.
LEMMA CalmTakes ==
  ASSUME NEW e \in Nat, e # 0, NEW lg, NEW t, NEW r, NEW u, NEW d, NEW v, Shorter(d, v), CalmClient(e, lg, t, u, d), Live(t),
         d[1].type \in {"hello", "sync", "ack"}, d[1].epoch # 0, t.epoch \in {0, d[1].epoch}, t.epoch = 0 => DOMAIN u = {},
         DOMAIN u = {} => Len(u) = 0,
         r.epoch = d[1].epoch, r.updates = t.updates, r.status # "disconnected",
         r.doc.blocks \subseteq t.doc.blocks \cup d[1].state.blocks,
         r.doc.erased \subseteq t.doc.erased \cup d[1].state.erased,
         \A f \in r.inFlight : f \in t.inFlight /\ (d[1].type = "ack" => f[1] # d[1].id),
         \A i \in DOMAIN v : v[i].type # "hello"
  PROVE  CalmClient(e, lg, r, u, v)
<1>1. Gapless(e, lg, t, u, d) /\ Unread(t, d) /\ Started(t, u) /\ Awaited(t, u, d) /\ Warned(t, d)
      /\ \A i \in DOMAIN d : Tells(e, lg, d[i])
  BY DEF CalmClient
<1>2. \A i \in DOMAIN v : i + 1 \in DOMAIN d /\ v[i] = d[i + 1] /\ i \in Int BY DEF Shorter
<1>3. \A i \in DOMAIN d : i = 1 \/ (i - 1 \in DOMAIN v /\ v[i - 1] = d[i] /\ i \in Int) BY DEF Shorter
<1>4. 1 \in DOMAIN d /\ IsState(d[1]) /\ ~ Refusal(d[1]) BY DEF Shorter, IsState, StateType, Refusal
<1>5. Gapless(e, lg, r, u, v)
  <2> SUFFICES ASSUME Unrefused(v), r.epoch = e PROVE Sequenced(lg, r, u) BY DEF Gapless
  <2>1. Unrefused(d)
    <3> SUFFICES ASSUME NEW i \in DOMAIN d PROVE ~ Refusal(d[i]) BY DEF Unrefused
    <3>1. CASE i = 1 BY <1>4, <3>1
    <3>2. CASE i - 1 \in DOMAIN v /\ v[i - 1] = d[i] BY <3>2 DEF Unrefused
    <3> QED BY <1>3, <3>1, <3>2
  <2>2. Holds(Final(lg), d[1].state) BY <1>1, <1>4 DEF Tells
  <2>3. CASE t.epoch = e
    <3>1. Sequenced(lg, t, u) BY <1>1, <2>1, <2>3 DEF Gapless
    <3>2. Arrives(lg, u, t.updates, r.doc)
      <4>1. Arrives(lg, u, t.updates, t.doc) BY <3>1 DEF Sequenced
      <4> QED BY <2>2, <4>1 DEF Arrives, Holds
    <3> QED BY <3>1, <3>2 DEF Sequenced
  <2>4. CASE t.epoch = 0
    <3>1. DOMAIN u = {} /\ t.doc = Empty /\ t.updates = Empty BY <1>1, <2>4 DEF Unread
    <3>2. Arrives(lg, u, r.updates, r.doc) BY <2>2, <3>1 DEF Arrives, Holds, Empty
    <3>3. Founded(lg, u, Len(u), r.updates) BY <3>1 DEF Founded, Empty
    <3> QED BY <3>1, <3>2, <3>3 DEF Sequenced
  <2> QED BY <2>3, <2>4
<1>6. Unread(r, v) BY DEF Unread
<1>7. Started(r, u) BY <1>1 DEF Started
<1>8. Awaited(r, u, v)
  <2> SUFFICES ASSUME NEW f \in r.inFlight
               PROVE  f[1] # 0 /\ ((\E i \in DOMAIN u : u[i].id = f[1]) \/ \E i \in DOMAIN v : v[i].id = f[1])
    BY DEF Awaited
  <2>1. f[1] # 0 /\ ((\E i \in DOMAIN u : u[i].id = f[1]) \/ \E i \in DOMAIN d : d[i].id = f[1]) BY <1>1 DEF Awaited
  <2>2. ASSUME NEW i \in DOMAIN d, d[i].id = f[1] PROVE \E j \in DOMAIN v : v[j].id = f[1]
    <3>1. CASE i = 1
      <4>1. d[1].type # "ack" => d[1].id = 0 BY <1>1, <1>4 DEF Tells
      <4> QED BY <2>1, <2>2, <3>1, <4>1
    <3>2. CASE i - 1 \in DOMAIN v /\ v[i - 1] = d[i] BY <2>2, <3>2
    <3> QED BY <1>3, <3>1, <3>2
  <2> QED BY <2>1, <2>2
<1>9. Warned(r, v)
  <2> SUFFICES ASSUME NEW i \in DOMAIN v, v[i].type = "missing_state" PROVE \E j \in DOMAIN v : j < i /\ Refusal(v[j])
    BY DEF Warned
  <2>1. PICK j \in DOMAIN d : j < i + 1 /\ Refusal(d[j]) BY <1>1, <1>2 DEF Warned
  <2>2. j - 1 \in DOMAIN v /\ v[j - 1] = d[j] /\ j \in Int BY <1>3, <1>4, <2>1
  <2>3. j - 1 < i BY <1>2, <2>1, <2>2
  <2> QED BY <2>1, <2>2, <2>3
<1>10. \A i \in DOMAIN v : Tells(e, lg, v[i]) BY <1>1, <1>2
<1> QED BY <1>5, <1>6, <1>7, <1>8, <1>9, <1>10 DEF CalmClient

\* The tab sends what it had, or the whole of its document.
LEMMA CalmAsks ==
  ASSUME NEW e, NEW lg, NEW t, NEW r, NEW u, NEW d, NEW x, NEW w, NEW f, Longer(u, x, w), CalmClient(e, lg, t, u, d),
         Live(r) => Live(t), r.status # "disconnected", r.epoch = t.epoch, t.epoch # 0, r.updates = Empty,
         r.inFlight = t.inFlight \cup {f}, f[1] = x.id, x.id # 0,
         IF x.type = "seed" THEN OneStart(x.state) ELSE Starts(x.state) = {},
         Live(t) /\ Unrefused(d) /\ t.epoch = e => Founded(lg, u, Len(u), x.state) /\ Arrives(lg, u, x.state, r.doc)
  PROVE  CalmClient(e, lg, r, w, d)
<1>1. Gapless(e, lg, t, u, d) /\ Unread(t, d) /\ Started(t, u) /\ Awaited(t, u, d) /\ Warned(t, d)
      /\ \A i \in DOMAIN d : Tells(e, lg, d[i])
  BY DEF CalmClient
<1>2. \A i \in DOMAIN w : (i \in DOMAIN u /\ w[i] = u[i]) \/ w[i] = x BY DEF Longer
<1>3. (\A i \in DOMAIN u : i \in DOMAIN w /\ w[i] = u[i]) /\ Len(u) + 1 \in DOMAIN w /\ w[Len(u) + 1] = x BY DEF Longer
<1>4. Gapless(e, lg, r, w, d)
  <2> SUFFICES ASSUME Live(r), Unrefused(d), r.epoch = e PROVE Sequenced(lg, r, w) BY DEF Gapless
  <2>1. \A k \in DOMAIN u : Founded(lg, u, k - 1, u[k].state) BY <1>1 DEF Gapless, Sequenced
  <2>2. Founded(lg, u, Len(u), x.state) /\ Arrives(lg, u, x.state, r.doc) OBVIOUS
  <2> QED BY <2>1, <2>2, SequencedAsks
<1>5. Unread(r, d) BY <1>1 DEF Unread
<1>6. Started(r, w)
  <2>1. Starts(r.updates) = {} BY DEF Starts, Empty
  <2> QED BY <1>1, <1>2, <2>1 DEF Started
<1>7. Awaited(r, w, d)
  <2> SUFFICES ASSUME Live(r), NEW g \in r.inFlight
               PROVE  g[1] # 0 /\ ((\E i \in DOMAIN w : w[i].id = g[1]) \/ \E i \in DOMAIN d : d[i].id = g[1])
    BY DEF Awaited
  <2>1. CASE g \in t.inFlight
    <3>1. g[1] # 0 /\ ((\E i \in DOMAIN u : u[i].id = g[1]) \/ \E i \in DOMAIN d : d[i].id = g[1]) BY <1>1, <2>1 DEF Awaited
    <3> QED BY <1>3, <3>1
  <2>2. CASE g = f BY <1>3, <2>2
  <2> QED BY <2>1, <2>2
<1>8. Warned(r, d) BY <1>1 DEF Warned
<1> QED BY <1>1, <1>4, <1>5, <1>6, <1>7, <1>8 DEF CalmClient

\* What the editor adds stands next to what the tab shows.
Placed(t, x) == /\ \A b \in x.blocks : b.on \in Ids(t.doc) /\ \A n \in 1 .. b.id[2] - 1 : <<b.id[1], n>> \in Ids(t.doc)
                /\ x.erased \subseteq Ids(t.doc)
LEMMA CalmEdits ==
  ASSUME NEW e, NEW lg, NEW t, NEW r, NEW u, \A i \in DOMAIN u : i <= Len(u), NEW d, NEW x,
         CalmClient(e, lg, t, u, d), Root \notin Ids(t.doc), Placed(t, x),
         r.status = t.status, r.epoch = t.epoch, t.epoch # 0, r.status # "disconnected", r.inFlight = t.inFlight,
         r.doc = Merge(t.doc, x), r.updates = Merge(t.updates, x)
  PROVE  CalmClient(e, lg, r, u, d)
<1>1. Gapless(e, lg, t, u, d) /\ Unread(t, d) /\ Started(t, u) /\ Awaited(t, u, d) /\ Warned(t, d)
      /\ \A i \in DOMAIN d : Tells(e, lg, d[i])
  BY DEF CalmClient
<1>2. /\ r.doc.blocks = t.doc.blocks \cup x.blocks /\ r.doc.erased = t.doc.erased \cup x.erased
      /\ r.updates.blocks = t.updates.blocks \cup x.blocks /\ r.updates.erased = t.updates.erased \cup x.erased
  BY DEF Merge
<1>3. Gapless(e, lg, r, u, d)
  <2> SUFFICES ASSUME Live(t), Unrefused(d), t.epoch = e PROVE Sequenced(lg, r, u)
    BY DEF Gapless, Live
  <2>1. /\ \A k \in DOMAIN u : Founded(lg, u, k - 1, u[k].state)
        /\ Founded(lg, u, Len(u), t.updates) /\ Arrives(lg, u, t.updates, t.doc)
    BY <1>1 DEF Gapless, Sequenced
  <2>2. Arrives(lg, u, r.updates, r.doc) BY <1>2, <2>1 DEF Arrives
  <2>3. ASSUME NEW id \in Ids(t.doc) PROVE Reachable(lg, u, Len(u), id) \/ id \in Ids(t.updates)
    <3>1. PICK b \in t.doc.blocks : b.id = id BY DEF Ids
    <3>2. CASE b \in Final(lg).blocks \/ b \in t.updates.blocks BY <3>1, <3>2 DEF Reachable, Ids
    <3>3. CASE \E i \in DOMAIN u : b \in u[i].state.blocks
      <4>1. PICK i \in DOMAIN u : b \in u[i].state.blocks BY <3>3
      <4>2. i <= Len(u) OBVIOUS
      <4> QED BY <3>1, <4>1, <4>2 DEF Reachable, Ids
    <3> QED BY <2>1, <3>2, <3>3 DEF Arrives
  <2>4. Founded(lg, u, Len(u), r.updates)
    <3>1. Ids(t.updates) \subseteq Ids(r.updates) BY <1>2 DEF Ids
    <3>2. ASSUME NEW b \in r.updates.blocks
          PROVE  /\ \A n \in 1 .. b.id[2] - 1 : Reachable(lg, u, Len(u), <<b.id[1], n>>) \/ <<b.id[1], n>> \in Ids(r.updates)
                 /\ b.on = Root \/ Reachable(lg, u, Len(u), b.on) \/ b.on \in Ids(r.updates)
      <4>1. CASE b \in t.updates.blocks BY <2>1, <3>1, <4>1 DEF Founded
      <4>2. CASE b \in x.blocks BY <2>3, <3>1, <4>2 DEF Placed
      <4> QED BY <1>2, <4>1, <4>2
    <3>3. ASSUME NEW id \in r.updates.erased PROVE Reachable(lg, u, Len(u), id) \/ id \in Ids(r.updates)
      <4>1. CASE id \in t.updates.erased BY <2>1, <3>1, <4>1 DEF Founded
      <4>2. CASE id \in x.erased BY <2>3, <3>1, <4>2 DEF Placed
      <4> QED BY <1>2, <4>1, <4>2
    <3> QED BY <3>2, <3>3 DEF Founded
  <2> QED BY <2>1, <2>2, <2>4 DEF Sequenced
<1>4. Unread(r, d) BY <1>1 DEF Unread
<1>5. Started(r, u)
  <2>1. \A b \in x.blocks : b.on # Root BY DEF Placed
  <2>2. Starts(r.updates) = {} BY <1>1, <1>2, <2>1 DEF Started, Starts
  <2> QED BY <1>1, <2>2 DEF Started
<1>6. Awaited(r, u, d) /\ Warned(r, d) BY <1>1 DEF Awaited, Warned, Live
<1> QED BY <1>1, <1>3, <1>4, <1>5, <1>6 DEF CalmClient

\* What a block's author shows, he goes on showing.
Grows(tabs, tabs2) == \A k \in Clients : tabs[k].doc.blocks \subseteq tabs2[k].doc.blocks

LEMMA SignedGrows ==
  ASSUME NEW tabs, NEW tabs2, Grows(tabs, tabs2), NEW x \in State, Signed(tabs, x)
  PROVE  Signed(tabs2, x)
<1> SUFFICES ASSUME NEW b \in x.blocks PROVE b \in tabs2[b.id[1]].doc.blocks BY DEF Signed
<1>1. b \in Block BY DEF State
<1>2. b.id[1] \in Clients BY <1>1 DEF Block, Id
<1>3. b \in tabs[b.id[1]].doc.blocks BY DEF Signed
<1> QED BY <1>2, <1>3 DEF Grows

LEMMA SignedRows ==
  ASSUME NEW tabs, NEW tabs2, Grows(tabs, tabs2), NEW t, NEW s, NEW u, NEW d, NEW h, Shaped(t, s, u, d, h),
         SignedQueues(tabs, t, u, d)
  PROVE  SignedQueues(tabs2, t, u, d)
<1>1. t.doc \in State /\ t.updates \in State BY DEF Shaped, TabRow
<1>2. \A i \in DOMAIN u : u[i].state \in State BY QueueRows
<1>3. \A i \in DOMAIN d : IsState(d[i]) => d[i].state \in State
  <2>1. \A i \in DOMAIN d : d[i] \in Downward BY QueueRows
  <2> QED BY <2>1 DEF Downward, AnswerRow, ErrorRow, IsState, StateType
<1>4. /\ Signed(tabs, t.doc) /\ Signed(tabs, t.updates) /\ (\A i \in DOMAIN u : Signed(tabs, u[i].state))
      /\ \A i \in DOMAIN d : IsState(d[i]) => Signed(tabs, d[i].state)
  BY DEF SignedQueues
<1>5. Signed(tabs2, t.doc) /\ Signed(tabs2, t.updates) BY <1>1, <1>4, SignedGrows
<1>6. \A i \in DOMAIN u : Signed(tabs2, u[i].state) BY <1>2, <1>4, SignedGrows
<1>7. \A i \in DOMAIN d : IsState(d[i]) => Signed(tabs2, d[i].state) BY <1>3, <1>4, SignedGrows
<1> QED BY <1>5, <1>6, <1>7 DEF SignedQueues

LEMMA PutGrows ==
  ASSUME NEW c \in Clients, NEW t, tab[c].doc.blocks \subseteq t.doc.blocks
  PROVE  Grows(tab, Put(tab, c, t))
BY DEF Grows, Put

LEMMA SignedParts ==
  ASSUME NEW tabs, NEW x, Signed(tabs, x), NEW y
  PROVE  Signed(tabs, Empty) /\ Signed(tabs, Without(x, y)) /\ (Signed(tabs, y) => Signed(tabs, Merge(x, y)))
BY DEF Signed, Empty, Without, Merge

\* The tab has taken what others did: its own blocks are those it has.
LEMMA NumberedTakes ==
  ASSUME NEW tabs, NEW c, NEW t, tabs[c] = t, NEW x, Signed(tabs, x), NEW r, Numbered(c, t),
         t.doc.blocks \subseteq r.doc.blocks, r.doc.blocks \subseteq t.doc.blocks \cup x.blocks
  PROVE  Numbered(c, r)
<1>1. Own(c, r.doc) = Own(c, t.doc) BY DEF Own, Signed
<1>2. Ids(t.doc) \subseteq Ids(r.doc) BY DEF Ids
<1> QED BY <1>1, <1>2 DEF Numbered

\* The tab has added a block with its next clock.
LEMMA NumberedAdds ==
  ASSUME NEW c, NEW t, NEW r, NEW b, Numbered(c, t), b.id = <<c, 1 + Cardinality(Own(c, t.doc))>>,
         r.doc.blocks = t.doc.blocks \cup {b}
  PROVE  Numbered(c, r)
<1>1. /\ IsFiniteSet(Own(c, t.doc)) /\ (\A n \in 1 .. Cardinality(Own(c, t.doc)) : <<c, n>> \in Ids(t.doc))
      /\ \A a \in Own(c, t.doc) : a.id[2] \in 1 .. Cardinality(Own(c, t.doc))
  BY DEF Numbered
<1>2. PICK k \in Nat : k = Cardinality(Own(c, t.doc)) BY <1>1, FS_CardinalityType
<1>3. b.id = <<c, 1 + k>> /\ b.id[1] = c /\ b.id[2] = k + 1 BY <1>2
<1>4. Own(c, r.doc) = Own(c, t.doc) \cup {b} BY <1>3 DEF Own
<1>5. b \notin Own(c, t.doc)
  <2> SUFFICES ASSUME b \in Own(c, t.doc) PROVE FALSE
    OBVIOUS
  <2>1. b.id[2] \in 1 .. k BY <1>1, <1>2
  <2> QED BY <1>2, <1>3, <2>1
<1>6. IsFiniteSet(Own(c, r.doc)) /\ Cardinality(Own(c, r.doc)) = k + 1 BY <1>1, <1>2, <1>4, <1>5, FS_AddElement
<1>7. Ids(t.doc) \subseteq Ids(r.doc) /\ <<c, k + 1>> \in Ids(r.doc)
  <2>1. b \in r.doc.blocks /\ b.id = <<c, k + 1>> BY <1>2, <1>3
  <2> QED BY <2>1 DEF Ids
<1>8. \A n \in 1 .. k + 1 : <<c, n>> \in Ids(r.doc)
  <2> SUFFICES ASSUME NEW n \in 1 .. k + 1 PROVE <<c, n>> \in Ids(r.doc)
    OBVIOUS
  <2>1. n \in 1 .. k \/ n = k + 1 BY <1>2
  <2> QED BY <1>1, <1>2, <1>7, <2>1
<1>9. \A a \in Own(c, r.doc) : a.id[2] \in 1 .. k + 1
  <2> SUFFICES ASSUME NEW a \in Own(c, r.doc) PROVE a.id[2] \in 1 .. k + 1
    OBVIOUS
  <2>1. CASE a \in Own(c, t.doc)
    <3>1. a.id[2] \in 1 .. k BY <1>1, <1>2, <2>1
    <3> QED BY <1>2, <3>1
  <2>2. CASE a = b BY <1>2, <1>3, <2>2
  <2> QED BY <1>4, <2>1, <2>2
<1> QED BY <1>6, <1>8, <1>9 DEF Numbered

----------------
(* Steps while no connection breaks.                                          *)

\* A client that only sees the log grow.
LEMMA OldClient ==
  ASSUME SessInv, NEW c \in Clients, epoch' \in Nat, LogGrows(epoch, log, epoch', log'),
         CalmClient(epoch, log, tab[c], up[c], down[c])
  PROVE  CalmClient(epoch', log', tab[c], up[c], down[c])
<1>1. /\ Shaped(tab[c], socket[c], up[c], down[c], made[c]) /\ tab[c] \in TabRow /\ epoch \in Nat
      /\ ClientFits(epoch, log, tab[c], socket[c], up[c], down[c], made[c])
  BY BeforeStep
<1>2. tab[c].epoch \in Nat /\ tab[c].epoch <= epoch BY <1>1 DEF TabRow, ClientFits, TabFits
<1>3. \A i \in DOMAIN down[c] : IsState(down[c][i]) => down[c][i].epoch \in Nat /\ down[c][i].epoch <= epoch
  <2> SUFFICES ASSUME NEW i \in DOMAIN down[c], IsState(down[c][i]) PROVE down[c][i].epoch \in Nat /\ down[c][i].epoch <= epoch
    OBVIOUS
  <2>1. down[c][i] \in Downward BY <1>1, QueueRows
  <2>2. down[c][i].epoch \in Nat BY <2>1 DEF Downward, AnswerRow, ErrorRow, IsState, StateType
  <2>3. Truthful(epoch, log, down[c][i]) BY <1>1 DEF ClientFits
  <2> QED BY <2>2, <2>3 DEF Truthful
<1> QED BY <1>1, <1>2, <1>3, CalmGrown

\* A step of the server alone.
LEMMA CalmServer ==
  ASSUME SessInv, Calm, epoch' \in Nat, LogGrows(epoch, log, epoch', log'), UNCHANGED <<tab, up, down>>,
         OneStart(Final(log')), Signed(tab, Final(log'))
  PROVE  Calm'
<1>1. \A c \in Clients : CalmClient(epoch', log', tab[c], up[c], down[c]) BY OldClient DEF Calm
<1> QED BY <1>1 DEF Calm

\* A step that concerns the client c.
LEMMA CalmOne ==
  ASSUME SessInv, Calm, NEW c \in Clients, epoch' \in Nat, LogGrows(epoch, log, epoch', log'),
         NEW t, tab' = Put(tab, c, t), NEW u, up' = Put(up, c, u), NEW d, down' = Put(down, c, d),
         tab[c].doc.blocks \subseteq t.doc.blocks, OneStart(Final(log')), Signed(tab', Final(log')),
         CalmClient(epoch', log', t, u, d), Numbered(c, t), SignedQueues(tab', t, u, d)
  PROVE  Calm'
<1>1. Grows(tab, tab') BY PutGrows
<1>2. ASSUME NEW k \in Clients
      PROVE  /\ CalmClient(epoch', log', tab'[k], up'[k], down'[k]) /\ Numbered(k, tab'[k])
             /\ SignedQueues(tab', tab'[k], up'[k], down'[k])
  <2>1. CASE k = c
    <3>1. tab'[k] = t /\ up'[k] = u /\ down'[k] = d BY <2>1 DEF Put
    <3> QED BY <2>1, <3>1
  <2>2. CASE k # c
    <3>1. tab'[k] = tab[k] /\ up'[k] = up[k] /\ down'[k] = down[k] BY <2>2 DEF Put
    <3>2. /\ CalmClient(epoch, log, tab[k], up[k], down[k]) /\ Numbered(k, tab[k])
          /\ SignedQueues(tab, tab[k], up[k], down[k])
      BY DEF Calm
    <3>3. CalmClient(epoch', log', tab[k], up[k], down[k]) BY <3>2, OldClient
    <3>4. Shaped(tab[k], socket[k], up[k], down[k], made[k]) BY BeforeStep
    <3>5. SignedQueues(tab', tab[k], up[k], down[k]) BY <1>1, <3>2, <3>4, SignedRows
    <3> QED BY <3>1, <3>2, <3>3, <3>5
  <2> QED BY <2>1, <2>2
<1> QED BY <1>2 DEF Calm

\* A step of the tab c: the server does not move.
LEMMA CalmTab ==
  ASSUME SessInv, Calm, NEW c \in Clients, epoch' = epoch, log' = log,
         NEW t, tab' = Put(tab, c, t), NEW u, up' = Put(up, c, u), NEW d, down' = Put(down, c, d),
         tab[c].doc.blocks \subseteq t.doc.blocks,
         CalmClient(epoch, log, t, u, d), Numbered(c, t), SignedQueues(tab', t, u, d)
  PROVE  Calm'
<1>1. epoch \in Nat /\ log \in Seq(State) BY BeforeStep
<1>2. LogGrows(epoch, log, epoch', log') BY <1>1, LogStays
<1>3. Final(log) \in State BY <1>1, FinalState
<1>4. Grows(tab, tab') BY PutGrows
<1>5. Signed(tab', Final(log)) BY <1>3, <1>4, SignedGrows DEF Calm
<1>6. Final(log') = Final(log) OBVIOUS
<1>7. OneStart(Final(log')) /\ Signed(tab', Final(log')) BY <1>5, <1>6 DEF Calm
<1>8. epoch' \in Nat /\ CalmClient(epoch', log', t, u, d) BY <1>1
<1> QED BY <1>2, <1>7, <1>8, CalmOne

LEMMA CalmReplace == ASSUME SessInv, Calm, Replace PROVE Calm'
<1>1. epoch < MaxEpoch /\ epoch' = epoch + 1 /\ log' = <<>> /\ UNCHANGED <<tab, up, down>> BY DEF Replace
<1>2. epoch \in 1 .. MaxEpoch BY DEF SessInv, LogFits
<1>3. epoch \in Nat /\ epoch' \in Nat BY <1>1, <1>2
<1>4. LogGrows(epoch, log, epoch', log') BY <1>1, <1>2, <1>3, LogEnds
<1>5. Final(log') = Empty BY <1>1 DEF Final
<1>6. OneStart(Final(log')) /\ Signed(tab, Final(log')) BY <1>5 DEF OneStart, Starts, Signed, Empty
<1> QED BY <1>1, <1>3, <1>4, <1>6, CalmServer

LEMMA CalmStill == ASSUME SessInv, Calm, UNCHANGED <<epoch, log, tab, up, down>> PROVE Calm'
BY DEF Calm

\* What an answer to the first request changes.
LEMMA CalmAnswers ==
  ASSUME SessInv, Calm, NEW c \in Clients, up[c] # <<>>, tab' = tab, up' = [up EXCEPT ![c] = Tail(@)], epoch' \in Nat,
         LogGrows(epoch, log, epoch', log'), NEW m \in Downward, down' = [down EXCEPT ![c] = Append(@, m)],
         Tells(epoch', log', m), m.id = up[c][1].id, m.type # "hello",
         m.type = "missing_state" /\ Live(tab[c]) => ~ Unrefused(down[c]), IsState(m) => Signed(tab, m.state),
         OneStart(Final(log')), Signed(tab, Final(log')),
         ~ Refusal(m) /\ epoch' = epoch => Holds(Final(log'), up[c][1].state)
  PROVE  Calm'
<1> DEFINE t == tab[c]
           u == up[c]
           d == down[c]
           v == Append(d, m)
<1>1. /\ Shaped(t, socket[c], u, d, made[c]) /\ tab = Put(tab, c, t) /\ epoch \in Nat /\ t \in TabRow
      /\ ClientFits(epoch, log, t, socket[c], u, d, made[c])
  BY BeforeStep
<1>2. Shorter(u, Tail(u)) BY <1>1, QueueRows
<1>3. Longer(d, m, v) BY <1>1, LongerOf DEF Shaped
<1>4. CalmClient(epoch, log, t, u, d) /\ Numbered(c, t) /\ SignedQueues(tab, t, u, d) BY DEF Calm
<1>5. CalmClient(epoch', log', t, u, d) BY <1>4, OldClient
<1> HIDE DEF t, u, d, v
<1>6. CalmClient(epoch', log', t, u, v) BY <1>3, <1>5, CalmTold DEF t, d
<1>7. \E i \in DOMAIN v : v[i].id = u[1].id
  <2>1. Len(d) + 1 \in DOMAIN v /\ v[Len(d) + 1] = m BY <1>3 DEF Longer
  <2> QED BY <2>1 DEF u
<1>8. Live(t) /\ Unrefused(v) /\ t.epoch = epoch' => Holds(Final(log'), u[1].state)
  <2> SUFFICES ASSUME Unrefused(v), t.epoch = epoch' PROVE Holds(Final(log'), u[1].state)
    OBVIOUS
  <2>1. Len(d) + 1 \in DOMAIN v /\ v[Len(d) + 1] = m BY <1>3 DEF Longer
  <2>2. ~ Refusal(m) BY <2>1 DEF Unrefused
  <2>3. t.epoch <= epoch BY <1>1 DEF ClientFits, TabFits
  <2>4. epoch' = epoch BY <1>1, <2>3 DEF LogGrows
  <2> QED BY <2>2, <2>4 DEF u
<1>9. CalmClient(epoch', log', t, Tail(u), v) BY <1>2, <1>6, <1>7, <1>8, CalmServed
<1>10. SignedQueues(tab, t, Tail(u), v)
  <2>1. \A i \in DOMAIN Tail(u) : i + 1 \in DOMAIN u /\ Tail(u)[i] = u[i + 1] BY <1>2 DEF Shorter
  <2>2. \A i \in DOMAIN v : (i \in DOMAIN d /\ v[i] = d[i]) \/ v[i] = m BY <1>3 DEF Longer
  <2> QED BY <1>4, <2>1, <2>2 DEF SignedQueues
<1>11. tab' = Put(tab, c, t) /\ up' = Put(up, c, Tail(u)) /\ down' = Put(down, c, v)
  BY <1>1, AllOnClients DEF OnClients, Put, u, d, v
<1>12. Signed(tab', Final(log')) /\ SignedQueues(tab', t, Tail(u), v) BY <1>10
<1> QED BY <1>4, <1>9, <1>11, <1>12, CalmOne DEF t

LEMMA CalmHandle == ASSUME SessInv, Calm, NEW c \in Clients, Handle(c) PROVE Calm'
<1> DEFINE m == up[c][1]
           w == c \in rights
<1>0. /\ ClientFits(epoch, log, tab[c], socket[c], up[c], down[c], made[c])
      /\ Shaped(tab[c], socket[c], up[c], down[c], made[c])
      /\ LogFits(epoch, log) /\ epoch \in Nat \ {0} /\ epoch \in 1 .. MaxEpoch /\ log \in Seq(State)
      /\ Latest = Final(log) /\ Latest \in State
  BY BeforeStep
<1>1. /\ up[c] # <<>> /\ tab' = tab /\ up' = [up EXCEPT ![c] = Tail(@)]
      /\ \/ \E code \in {"read_only", "seed_required"} : Fail(c, code, m)
         \/ ~ Stale(m) /\ ~ Whole(m) /\ Fail(c, "missing_state", m)
         \/ /\ UNCHANGED <<epoch, log>> /\ Send(c, Answer(c, "reset", m.id, 0, Latest))
         \/ /\ ~ Stale(m) /\ (log = <<>> => m.type = "seed") /\ Whole(m) /\ (Commit(c, m) \/ CommitLast(c, m))
  BY DEF Handle
<1>2. m \in Upward /\ m.id \in Nat /\ m.state \in State /\ 1 \in DOMAIN up[c] /\ Shorter(up[c], Tail(up[c])) BY <1>0, <1>1, QueueRows
<1>3. w \in BOOLEAN OBVIOUS
<1>4. m.epoch = tab[c].epoch /\ (m.type = "seed" => Starts(m.state) # {})
  BY <1>0, <1>2 DEF ClientFits, QueuesFit, Requested
<1>5. LogGrows(epoch, log, epoch, log) BY <1>0, LogStays
<1>6. /\ CalmClient(epoch, log, tab[c], up[c], down[c]) /\ Signed(tab, m.state)
      /\ OneStart(Final(log)) /\ Signed(tab, Final(log))
  BY <1>2 DEF Calm, SignedQueues
<1>7. ASSUME NEW code \in {"read_only", "seed_required", "missing_state"}, Fail(c, code, m),
             code = "missing_state" /\ Live(tab[c]) => ~ Unrefused(down[c])
      PROVE  Calm'
  <2>1. PICK x : x = Error(code, m.id) OBVIOUS
  <2>2. x \in ErrorRow /\ x.type = code /\ x.id = m.id BY <1>2, <2>1 DEF Error, ErrorRow
  <2>3. x \in Downward /\ ~ IsState(x) /\ x.type # "hello" /\ Refusal(x)
    BY <2>2 DEF Downward, IsState, StateType, Refusal
  <2>4. Tells(epoch, log, x) BY <2>2, <2>3 DEF Tells
  <2>5. /\ down' = [down EXCEPT ![c] = Append(@, x)] /\ epoch' = epoch /\ log' = log
    BY <1>7, <2>1 DEF Fail, Send
  <2>6. /\ epoch' \in Nat /\ LogGrows(epoch, log, epoch', log') /\ Tells(epoch', log', x)
        /\ OneStart(Final(log')) /\ Signed(tab, Final(log'))
    BY <1>0, <1>5, <1>6, <2>4, <2>5
  <2> QED BY <1>1, <1>7, <2>2, <2>3, <2>5, <2>6, CalmAnswers
<1>8. ASSUME ~ Stale(m), ~ Whole(m), Fail(c, "missing_state", m) PROVE Calm'
  <2>1. ASSUME Live(tab[c]), Unrefused(down[c]) PROVE FALSE
    <3>1. tab[c].epoch = epoch BY <1>4, <1>8 DEF Stale
    <3>2. Sequenced(log, tab[c], up[c]) BY <1>6, <2>1, <3>1 DEF CalmClient, Gapless
    <3>3. Founded(log, up[c], 1 - 1, m.state) BY <1>2, <3>2 DEF Sequenced
    <3>4. Founded(log, up[c], 0, m.state) BY <3>3
    <3>5. DOMAIN up[c] \subseteq Nat \ {0} BY <1>2 DEF Shorter
    <3>6. Complete(Final(log)) BY <1>0 DEF LogFits
    <3>7. Complete(Merge(Final(log), m.state)) BY <3>4, <3>5, <3>6, FoundedIsWhole
    <3> QED BY <1>0, <1>8, <3>7 DEF Whole
  <2> QED BY <1>7, <1>8, <2>1
<1>9. ASSUME UNCHANGED <<epoch, log>>, Send(c, Answer(c, "reset", m.id, 0, Latest)) PROVE Calm'
  <2> HIDE DEF w
  <2>1. PICK x : x = Says("reset", m.id, epoch, log, 0, Latest, w, FALSE) OBVIOUS
  <2>2. "reset" \in StateType /\ 0 \in Nat BY DEF StateType
  <2>3. x \in Downward /\ IsState(x) /\ x.type = "reset" /\ x.id = m.id /\ x.state = Latest
    <3>1. x \in AnswerRow BY <1>0, <1>2, <1>3, <2>1, <2>2, SaysFields
    <3>2. x.type = "reset" /\ x.id = m.id /\ x.state = Latest BY <2>1 DEF Says
    <3> QED BY <3>1, <3>2 DEF Downward, IsState, StateType
  <2>4. Refusal(x) /\ x.type # "hello" BY <2>3 DEF Refusal
  <2>5. Holds(Final(log), x.state) BY <1>0, <2>3, StateFacts
  <2>6. Tells(epoch, log, x) BY <2>3, <2>5 DEF Tells
  <2>7. down' = [down EXCEPT ![c] = Append(@, x)] BY <1>9, <2>1 DEF Send, Answer, Says, w
  <2>8. /\ epoch' \in Nat /\ LogGrows(epoch, log, epoch', log') /\ Tells(epoch', log', x)
        /\ OneStart(Final(log')) /\ Signed(tab, Final(log')) /\ Signed(tab, x.state)
    BY <1>0, <1>5, <1>6, <1>9, <2>3, <2>6
  <2> QED BY <1>1, <2>3, <2>4, <2>7, <2>8, CalmAnswers
<1>10. ASSUME ~ Stale(m), log = <<>> => m.type = "seed", Whole(m), Commit(c, m) PROVE Calm'
  <2> HIDE DEF w
  <2>1. PICK after : after = Committed(log, m.state) OBVIOUS
  <2>2. Complete(Merge(Final(log), m.state)) BY <1>0, <1>10 DEF Whole
  <2>3. PICK all : all = Merge(Final(log), m.state) OBVIOUS
  <2>4. /\ LogFits(epoch, after) /\ LogGrows(epoch, log, epoch, after)
        /\ Holds(Final(after), m.state) /\ Holds(all, Final(after)) /\ all \in State /\ Starts(all) # {}
    BY <1>0, <1>2, <1>4, <1>10, <2>1, <2>2, <2>3, LogCommits
  <2>5. epoch' = epoch /\ log' = after BY <1>0, <1>10, <2>1 DEF Commit, Committed
  <2>6. after \in Seq(State) BY <2>4 DEF LogFits
  <2>7. PICK x : x = Says("ack", m.id, epoch, after, 0, all, w, TRUE) OBVIOUS
  <2>8. "ack" \in StateType /\ 0 \in Nat BY DEF StateType
  <2>9. x \in Downward /\ IsState(x) /\ x.type = "ack" /\ x.id = m.id /\ x.epoch = epoch /\ x.sequence = Len(after) /\ x.state = all
    <3>1. x \in AnswerRow BY <1>0, <1>2, <1>3, <2>4, <2>6, <2>7, <2>8, SaysFields
    <3>2. x.type = "ack" /\ x.id = m.id /\ x.epoch = epoch /\ x.sequence = Len(after) /\ x.state = all BY <2>7 DEF Says
    <3> QED BY <3>1, <3>2 DEF Downward, IsState, StateType
  <2>10. down' = [down EXCEPT ![c] = Append(@, x)]
    <3>1. [Answer(c, "ack", m.id, 0, all) EXCEPT !.committed = TRUE] = x
      <4>1. Answer(c, "ack", m.id, 0, all) = Says("ack", m.id, epoch, after, 0, all, w, FALSE)
        BY <2>5 DEF Answer, Says, w
      <4>2. AsCommitted(Says("ack", m.id, epoch, after, 0, all, w, FALSE)) = x BY <1>3, <2>7, SaysCommitted
      <4> QED BY <4>1, <4>2 DEF AsCommitted
    <3>2. Send(c, [Answer(c, "ack", m.id, 0, all) EXCEPT !.committed = TRUE]) BY <1>0, <1>10, <2>3 DEF Commit
    <3> QED BY <3>1, <3>2 DEF Send
  <2>11. Holds(Final(after), all)
    <3>1. Holds(Final(after), Final(log)) BY <1>0, <2>4 DEF LogGrows
    <3> QED BY <2>3, <2>4, <3>1 DEF Holds, Merge
  <2>12. Len(after) > 0
    <3>1. after # <<>>
      <4>1. CASE log # <<>> BY <1>0, <2>1, <4>1 DEF Committed
      <4>2. CASE log = <<>>
        <5>1. Starts(m.state) # {} BY <1>4, <1>10, <4>2
        <5>2. ~ Holds(Empty, m.state) BY <5>1 DEF Holds, Empty, Starts
        <5>3. after = Append(<<>>, all) BY <2>1, <2>3, <4>2, <5>2 DEF Committed, Final
        <5> QED BY <2>4, <5>3
      <4> QED BY <4>1, <4>2
    <3> QED BY <2>6, <3>1
  <2>13. Tells(epoch, after, x) BY <2>9, <2>11, <2>12 DEF Tells
  <2>14. Signed(tab, all) BY <1>6, <2>3, SignedParts
  <2>15. Signed(tab, Final(after)) BY <2>4, <2>14 DEF Signed, Holds
  <2>16. OneStart(Final(after))
    <3>1. OneStart(all)
      <4>1. CASE log = <<>>
        <5>1. all.blocks = m.state.blocks BY <2>3, <4>1 DEF Final, Empty, Merge
        <5>2. OneStart(m.state) BY <1>2, <1>6, <1>10, <4>1 DEF CalmClient, Started
        <5> QED BY <5>1, <5>2 DEF OneStart, Starts
      <4>2. CASE log # <<>>
        <5>1. m.type # "seed" BY <1>10, <4>2 DEF Stale
        <5>2. Starts(m.state) = {} BY <1>2, <1>6, <5>1 DEF CalmClient, Started
        <5>3. Starts(all) \subseteq Starts(Final(log)) BY <2>3, <5>2 DEF Starts, Merge
        <5> QED BY <1>6, <5>3 DEF OneStart
      <4> QED BY <4>1, <4>2
    <3>2. Starts(Final(after)) \subseteq Starts(all) BY <2>4 DEF Starts, Holds
    <3> QED BY <3>1, <3>2 DEF OneStart
  <2>17. /\ epoch' \in Nat /\ LogGrows(epoch, log, epoch', log') /\ Tells(epoch', log', x)
         /\ OneStart(Final(log')) /\ Signed(tab, Final(log')) /\ Signed(tab, x.state) /\ Holds(Final(log'), up[c][1].state)
    BY <1>0, <2>4, <2>5, <2>9, <2>13, <2>14, <2>15, <2>16
  <2>18. x.type # "hello" /\ x.type # "missing_state" BY <2>9
  <2> QED BY <1>1, <2>9, <2>10, <2>17, <2>18, CalmAnswers
<1>11. ASSUME CommitLast(c, m) PROVE Calm'
  <2> HIDE DEF w
  <2>1. epoch < MaxEpoch /\ epoch' = epoch + 1 /\ log' = <<>> BY <1>11 DEF CommitLast
  <2>2. LogFits(epoch', log') /\ LogGrows(epoch, log, epoch', log') BY <1>0, <2>1, LogEnds
  <2>3. PICK x : x = Says("reset", m.id, epoch', <<>>, 0, Empty, w, TRUE) OBVIOUS
  <2>4. epoch' \in Nat \ {0} /\ epoch' # epoch /\ <<>> \in Seq(State) BY <1>0, <2>1
  <2>5. Empty \in State BY <1>2, StateFacts
  <2>6. "reset" \in StateType /\ 0 \in Nat /\ TRUE \in BOOLEAN BY DEF StateType
  <2>7. x \in Downward /\ IsState(x) /\ x.type = "reset" /\ x.id = m.id /\ x.state = Empty
    <3>1. x \in AnswerRow BY <1>2, <1>3, <2>3, <2>4, <2>5, <2>6, SaysFields
    <3>2. x.type = "reset" /\ x.id = m.id /\ x.state = Empty BY <2>3 DEF Says
    <3> QED BY <3>1, <3>2 DEF Downward, IsState, StateType
  <2>8. Final(log') = Empty BY <2>1 DEF Final
  <2>9. Tells(epoch', log', x) BY <2>5, <2>7, <2>8, StateFacts DEF Tells
  <2>10. down' = [down EXCEPT ![c] = Append(@, x)]
    <3>1. [Answer(c, "reset", m.id, 0, Empty) EXCEPT !.committed = TRUE] = x
      <4>1. Answer(c, "reset", m.id, 0, Empty) = Says("reset", m.id, epoch', <<>>, 0, Empty, w, FALSE)
        BY <2>1 DEF Answer, Says, w
      <4>2. AsCommitted(Says("reset", m.id, epoch', <<>>, 0, Empty, w, FALSE)) = x BY <1>3, <2>3, SaysCommitted
      <4> QED BY <4>1, <4>2 DEF AsCommitted
    <3>2. Send(c, [Answer(c, "reset", m.id, 0, Empty) EXCEPT !.committed = TRUE]) BY <1>11 DEF CommitLast
    <3> QED BY <3>1, <3>2 DEF Send
  <2>11. OneStart(Final(log')) /\ Signed(tab, Final(log')) /\ Signed(tab, x.state)
    BY <2>7, <2>8 DEF OneStart, Starts, Signed, Empty
  <2>12. x.type # "hello" /\ x.type # "missing_state" /\ epoch' \in Nat BY <2>4, <2>7
  <2> QED BY <1>1, <2>2, <2>4, <2>7, <2>9, <2>10, <2>11, <2>12, CalmAnswers
<1> QED BY <1>1, <1>7, <1>8, <1>9, <1>10, <1>11

\* A message that answers nothing.
LEMMA CalmSays ==
  ASSUME SessInv, Calm, NEW c \in Clients, UNCHANGED <<epoch, log, tab, up>>,
         NEW m \in Downward, down' = [down EXCEPT ![c] = Append(@, m)],
         Tells(epoch, log, m), m.type # "hello", m.type # "missing_state", IsState(m) => Signed(tab, m.state)
  PROVE  Calm'
<1> DEFINE t == tab[c]
           u == up[c]
           d == down[c]
           v == Append(d, m)
<1>1. Shaped(t, socket[c], u, d, made[c]) /\ tab = Put(tab, c, t) /\ up = Put(up, c, u) BY BeforeStep
<1>2. Longer(d, m, v) BY <1>1, LongerOf DEF Shaped
<1>3. CalmClient(epoch, log, t, u, d) /\ Numbered(c, t) /\ SignedQueues(tab, t, u, d) BY DEF Calm
<1> HIDE DEF t, u, d, v
<1>4. CalmClient(epoch, log, t, u, v) BY <1>2, <1>3, CalmTold
<1>5. SignedQueues(tab, t, u, v)
  <2>1. \A i \in DOMAIN v : (i \in DOMAIN d /\ v[i] = d[i]) \/ v[i] = m BY <1>2 DEF Longer
  <2> QED BY <1>3, <2>1 DEF SignedQueues
<1>6. tab' = Put(tab, c, t) /\ up' = Put(up, c, u) /\ down' = Put(down, c, v)
  BY <1>1, AllOnClients DEF OnClients, Put, d, v
<1>7. tab[c].doc.blocks \subseteq t.doc.blocks /\ SignedQueues(tab', t, u, v) BY <1>5 DEF t
<1> QED BY <1>3, <1>4, <1>6, <1>7, CalmTab

LEMMA CalmPoll == ASSUME SessInv, Calm, NEW c \in Clients, Poll(c) PROVE Calm'
<1> DEFINE w == c \in rights
           type == IF socket[c].epoch = epoch THEN "sync" ELSE "reset"
<1>0. /\ epoch \in Nat \ {0} /\ log \in Seq(State) /\ Latest = Final(log) /\ Latest \in State /\ socket[c] \in SocketRow
      /\ ClientFits(epoch, log, tab[c], socket[c], up[c], down[c], made[c])
  BY BeforeStep
<1>1. /\ socket[c].open /\ UNCHANGED <<epoch, log, tab, up>>
      /\ \/ down' = [down EXCEPT ![c] = Append(@, Says(type, 0, epoch, log, 0, Latest, w, FALSE))]
         \/ /\ socket[c].epoch = epoch /\ socket[c].sequence > 0
            /\ down' = [down EXCEPT ![c] = Append(@, Says("sync", 0, epoch, log, socket[c].sequence,
                                                          Without(Latest, log[socket[c].sequence]), w, FALSE))]
  BY DEF Poll, Send, Answer, Says
<1>2. w \in BOOLEAN OBVIOUS
<1> HIDE DEF w
<1>3. type \in {"sync", "reset"} OBVIOUS
<1> HIDE DEF type
<1>4. Signed(tab, Latest) BY <1>0 DEF Calm
<1>5. CASE down' = [down EXCEPT ![c] = Append(@, Says(type, 0, epoch, log, 0, Latest, w, FALSE))]
  <2>1. PICK m : m = Says(type, 0, epoch, log, 0, Latest, w, FALSE) OBVIOUS
  <2>2. m \in AnswerRow
    <3>1. 0 \in Nat /\ type \in StateType BY <1>3 DEF StateType
    <3> QED BY <1>0, <1>2, <2>1, <3>1, SaysFields
  <2>3. m.type = type /\ m.id = 0 /\ m.state = Latest BY <2>1 DEF Says
  <2>4. m \in Downward /\ IsState(m) /\ m.type \notin {"hello", "missing_state", "ack"}
    BY <1>3, <2>2, <2>3 DEF Downward, IsState, StateType
  <2>5. Holds(Final(log), m.state) BY <1>0, <2>3, StateFacts
  <2>6. Tells(epoch, log, m) BY <2>3, <2>4, <2>5 DEF Tells
  <2>7. down' = [down EXCEPT ![c] = Append(@, m)] BY <1>5, <2>1
  <2>8. m.type # "hello" /\ m.type # "missing_state" /\ Signed(tab, m.state) BY <1>4, <2>3, <2>4
  <2> QED BY <1>1, <2>4, <2>6, <2>7, <2>8, CalmSays
<1>6. CASE /\ socket[c].epoch = epoch /\ socket[c].sequence > 0
           /\ down' = [down EXCEPT ![c] = Append(@, Says("sync", 0, epoch, log, socket[c].sequence,
                                                         Without(Latest, log[socket[c].sequence]), w, FALSE))]
  <2>1. PICK n : n = socket[c].sequence OBVIOUS
  <2>2. n \in DOMAIN log BY <1>0, <1>1, <1>6, <2>1 DEF ClientFits, Followed, SocketRow
  <2>3. log[n] \in State /\ n \in Nat BY <1>0, <2>2
  <2>4. PICK state \in State : state = Without(Latest, log[n]) BY <1>0, <2>3, StateFacts
  <2>5. PICK m : m = Says("sync", 0, epoch, log, n, state, w, FALSE) OBVIOUS
  <2>6. m \in AnswerRow
    <3>1. 0 \in Nat /\ "sync" \in StateType BY DEF StateType
    <3> QED BY <1>0, <1>2, <2>3, <2>5, <3>1, SaysFields
  <2>7. m.type = "sync" /\ m.id = 0 /\ m.state = state BY <2>5 DEF Says
  <2>8. m \in Downward /\ IsState(m) BY <2>6, <2>7 DEF Downward, IsState, StateType
  <2>9. Holds(Final(log), m.state) BY <1>0, <2>4, <2>7 DEF Holds, Without
  <2>10. Tells(epoch, log, m) BY <2>7, <2>9 DEF Tells
  <2>11. down' = [down EXCEPT ![c] = Append(@, m)] BY <1>6, <2>1, <2>4, <2>5
  <2>12. Signed(tab, m.state) BY <1>4, <2>4, <2>7, SignedParts
  <2>13. m.type # "hello" /\ m.type # "missing_state" BY <2>7
  <2> QED BY <1>1, <2>8, <2>10, <2>11, <2>12, <2>13, CalmSays
<1> QED BY <1>1, <1>5, <1>6

\* A tab connects once, before it was told anything.
LEMMA CalmConnect == ASSUME SessInv, Calm, NEW c \in Clients, Connect(c) PROVE Calm'
<1> DEFINE w == c \in rights
           k == tab[c]
           u == up[c]
           d == down[c]
<1>0. /\ epoch \in Nat \ {0} /\ log \in Seq(State) /\ Latest = Final(log) /\ Latest \in State /\ k \in TabRow
      /\ ClientFits(epoch, log, k, socket[c], u, d, made[c]) /\ up = Put(up, c, u) /\ Shaped(k, socket[c], u, d, made[c])
  BY BeforeStep
<1>1. /\ k.status = "disconnected" /\ tab' = [tab EXCEPT ![c].status = "syncing"] /\ UNCHANGED <<epoch, log, up>>
      /\ down' = [down EXCEPT ![c] = Append(@, Says("hello", 0, epoch, log, 0, Latest, w, FALSE))]
  BY DEF Connect, Send, Answer, Says
<1>2. w \in BOOLEAN OBVIOUS
<1> HIDE DEF w
<1>3. CalmClient(epoch, log, k, u, d) /\ Numbered(c, k) /\ SignedQueues(tab, k, u, d) /\ Signed(tab, Latest) BY <1>0 DEF Calm
<1>4. PICK m : m = Says("hello", 0, epoch, log, 0, Latest, w, FALSE) OBVIOUS
<1>5. m \in AnswerRow
  <2>1. 0 \in Nat /\ "hello" \in StateType BY DEF StateType
  <2> QED BY <1>0, <1>2, <1>4, <2>1, SaysFields
<1>6. m.type = "hello" /\ m.id = 0 /\ m.state = Latest BY <1>4 DEF Says
<1>7. m \in Downward /\ IsState(m) /\ ~ Refusal(m) BY <1>5, <1>6 DEF Downward, IsState, StateType, Refusal
<1>8. Tells(epoch, log, m)
  <2>1. Holds(Final(log), m.state) BY <1>0, <1>6, StateFacts
  <2> QED BY <1>6, <2>1 DEF Tells
<1>9. PICK t : t = [k EXCEPT !.status = "syncing"] OBVIOUS
<1>10. /\ t.status = "syncing" /\ t.doc = k.doc /\ t.epoch = k.epoch /\ t.updates = k.updates /\ t.inFlight = k.inFlight
       /\ t.seeding = k.seeding
  BY <1>0, <1>9 DEF TabRow
<1>11. tab' = [tab EXCEPT ![c] = t] BY <1>1, <1>9 DEF SessInv
<1>12. DOMAIN u = {} /\ DOMAIN d = {} BY <1>0, <1>1 DEF ClientFits, Unplugged
<1> DEFINE v == Append(d, m)
<1>13. DOMAIN v = {1} /\ v[1] = m
  <2>1. d = <<>> BY <1>0, <1>1 DEF ClientFits, Unplugged
  <2>2. v = <<m>> BY <2>1
  <2> QED BY <2>2
<1>14. tab' = Put(tab, c, t) /\ up' = Put(up, c, u) /\ down' = Put(down, c, v)
  BY <1>0, <1>1, <1>4, <1>11, AllOnClients DEF OnClients, Put
<1> HIDE DEF k, u, d, v
<1>15. k.epoch = 0 /\ k.doc = Empty /\ k.updates = Empty /\ k.inFlight = {} /\ ~ k.seeding
  BY <1>1, <1>3 DEF CalmClient, Unread
<1>16. CalmClient(epoch, log, t, u, v)
  <2>1. Gapless(epoch, log, t, u, v) BY <1>0, <1>10, <1>15 DEF Gapless
  <2>2. Unread(t, v) BY <1>10, <1>15 DEF Unread
  <2>3. Started(t, u) BY <1>10, <1>12, <1>15 DEF Started, Starts, Empty
  <2>4. Awaited(t, u, v) BY <1>10, <1>15 DEF Awaited
  <2>5. Warned(t, v) BY <1>6, <1>13 DEF Warned
  <2>6. \A i \in DOMAIN v : Tells(epoch, log, v[i]) BY <1>8, <1>13
  <2> QED BY <2>1, <2>2, <2>3, <2>4, <2>5, <2>6 DEF CalmClient
<1>17. Numbered(c, t) BY <1>3, <1>10 DEF Numbered
<1>18. k.doc.blocks \subseteq t.doc.blocks /\ k = tab[c] BY <1>10 DEF k
<1>19. SignedQueues(tab', t, u, v)
  <2>1. Grows(tab, tab') BY <1>14, <1>18, PutGrows
  <2>2. Signed(tab', Latest) BY <1>0, <1>3, <2>1, SignedGrows
  <2>3. Signed(tab', Empty) BY DEF Signed, Empty
  <2> QED BY <1>6, <1>10, <1>12, <1>13, <1>15, <2>2, <2>3 DEF SignedQueues
<1> QED BY <1>1, <1>14, <1>16, <1>17, <1>18, <1>19, CalmTab

LEMMA CalmLeave == ASSUME SessInv, Calm, NEW c \in Clients, Leave(c) PROVE Calm'
<1> DEFINE t == tab[c]
<1>1. /\ t.status \in Stopped /\ down' = [down EXCEPT ![c] = <<>>] /\ up' = [up EXCEPT ![c] = <<>>]
      /\ UNCHANGED <<epoch, log, tab>>
  BY DEF Leave, Hang
<1>2. tab = Put(tab, c, t) /\ t \in TabRow BY BeforeStep
<1>3. CalmClient(epoch, log, t, up[c], down[c]) /\ Numbered(c, t) /\ SignedQueues(tab, t, up[c], down[c]) BY DEF Calm
<1>4. Rests(t, t) BY <1>1 DEF Rests
<1>5. CalmClient(epoch, log, t, <<>>, <<>>)
  <2>1. DOMAIN <<>> = {} OBVIOUS
  <2> HIDE DEF t
  <2> QED BY <1>3, <1>4, <2>1, CalmStops
<1>6. tab' = Put(tab, c, t) /\ up' = Put(up, c, <<>>) /\ down' = Put(down, c, <<>>)
  BY <1>1, <1>2, AllOnClients DEF OnClients, Put
<1>7. SignedQueues(tab', t, <<>>, <<>>) BY <1>1, <1>3 DEF SignedQueues
<1>8. tab[c].doc.blocks \subseteq t.doc.blocks OBVIOUS
<1> QED BY <1>1, <1>3, <1>5, <1>6, <1>7, <1>8, CalmTab

\* What the editor does.
LEMMA CalmEdit ==
  ASSUME SessInv, Calm, NEW c \in Clients, NEW x \in State, Edit(c, x), Placed(tab[c], x), \A b \in x.blocks : b.id[1] = c,
         \A r : r.doc.blocks = tab[c].doc.blocks \cup x.blocks => Numbered(c, r)
  PROVE  Calm'
<1> DEFINE k == tab[c]
           u == up[c]
           d == down[c]
<1>0. /\ k \in TabRow /\ ClientFits(epoch, log, k, socket[c], u, d, made[c]) /\ up = Put(up, c, u) /\ down = Put(down, c, d)
      /\ Shaped(k, socket[c], u, d, made[c])
  BY BeforeStep
<1>1. k.doc \in State /\ k.updates \in State /\ k.revision \in Nat BY <1>0 DEF TabRow
<1>2. PICK doc \in State : doc = Merge(k.doc, x) BY <1>1, StateFacts
<1>3. PICK updates \in State : updates = Merge(k.updates, x) BY <1>1, StateFacts
<1>4. PICK next : next = k.revision + 1 OBVIOUS
<1>5. PICK t : t = [k EXCEPT !.doc = doc, !.updates = updates, !.revision = next, !.timer = TRUE] OBVIOUS
<1>6. /\ t.status = k.status /\ t.doc = doc /\ t.epoch = k.epoch /\ t.updates = updates /\ t.inFlight = k.inFlight
  BY <1>0, <1>5 DEF TabRow
<1>7. /\ k.status = "connected" /\ UNCHANGED <<epoch, log, up, down>>
      /\ tab' = [tab EXCEPT ![c] = [k EXCEPT !.doc = Merge(@, x), !.updates = Merge(@, x), !.revision = @ + 1, !.timer = TRUE]]
  BY DEF Edit
<1>8. [k EXCEPT !.doc = Merge(@, x), !.updates = Merge(@, x), !.revision = @ + 1, !.timer = TRUE] = t
  BY <1>0, <1>2, <1>3, <1>4, <1>5 DEF TabRow
<1>9. tab' = Put(tab, c, t) /\ up' = Put(up, c, u) /\ down' = Put(down, c, d)
  BY <1>0, <1>7, <1>8, AllOnClients DEF OnClients, Put
<1>10. CalmClient(epoch, log, k, u, d) /\ SignedQueues(tab, k, u, d) BY DEF Calm
<1>11. k.epoch # 0 BY <1>0, <1>7 DEF ClientFits, TabFits
<1>12. (\A i \in DOMAIN u : i <= Len(u)) /\ Root \notin Ids(k.doc)
  <2>1. u \in Seq(Upward) BY <1>0 DEF Shaped
  <2>2. Ids(k.doc) \subseteq Id BY <1>1 DEF Ids, State, Block
  <2>3. Root \notin Id BY RootAssumption DEF Id
  <2> QED BY <2>1, <2>2, <2>3
<1> HIDE DEF k, u, d
<1>13. CalmClient(epoch, log, t, u, d)
  <2>1. Placed(k, x) BY DEF k
  <2>2. t.status # "disconnected" BY <1>6, <1>7
  <2> QED BY <1>2, <1>3, <1>6, <1>10, <1>11, <1>12, <2>1, <2>2, CalmEdits
<1>14. doc.blocks = k.doc.blocks \cup x.blocks BY <1>2 DEF Merge
<1>15. Numbered(c, t) BY <1>6, <1>14 DEF k
<1>16. tab[c].doc.blocks \subseteq t.doc.blocks BY <1>6, <1>14 DEF k
<1>17. SignedQueues(tab', t, u, d)
  <2>1. Grows(tab, tab') BY <1>9, <1>16, PutGrows
  <2>2. SignedQueues(tab', k, u, d) BY <1>0, <1>10, <2>1, SignedRows
  <2>3. Signed(tab', x)
    <3> SUFFICES ASSUME NEW b \in x.blocks PROVE b \in tab'[b.id[1]].doc.blocks BY DEF Signed
    <3>1. b.id[1] = c /\ tab'[c] = t BY <1>9 DEF Put
    <3> QED BY <1>6, <1>14, <3>1
  <2>4. Signed(tab', doc) /\ Signed(tab', updates) BY <1>2, <1>3, <2>2, <2>3, SignedParts DEF SignedQueues
  <2> QED BY <1>6, <2>2, <2>4 DEF SignedQueues
<1> QED BY <1>7, <1>9, <1>13, <1>15, <1>16, <1>17, CalmTab

LEMMA CalmInsert == ASSUME SessInv, Calm, NEW c \in Clients, Insert(c) PROVE Calm'
<1> DEFINE t == tab[c]
           own == Own(c, t.doc)
<1>1. t \in TabRow BY BeforeStep
<1>2. t.doc.blocks \subseteq Block BY <1>1 DEF TabRow, State
<1>3. Cardinality(own) \in Nat BY <1>2, BlocksFinite DEF Own
<1>4. MaxClock \in Nat BY BoundsAssumption
<1>5. NextId(c) = <<c, 1 + Cardinality(own)>> BY DEF NextId, Own
<1>6. PICK b \in Ids(t.doc) : NextId(c)[2] <= MaxClock /\ Edit(c, [blocks |-> {[id |-> NextId(c), on |-> b]}, erased |-> {}])
  BY DEF Insert
<1>7. Numbered(c, t) BY DEF Calm
<1> HIDE DEF own, t
<1>8. NextId(c) \in Id BY <1>3, <1>4, <1>5, <1>6 DEF Id
<1>9. b \in Id BY <1>2 DEF Ids, Block
<1>10. PICK i \in Id : i = NextId(c) BY <1>8
<1>11. PICK a : a = [id |-> i, on |-> b] OBVIOUS
<1>12. a \in Block /\ a.id = i /\ a.on = b BY <1>9, <1>11 DEF Block
<1>13. PICK x : x = [blocks |-> {a}, erased |-> {}] OBVIOUS
<1>14. x \in State /\ x.blocks = {a} /\ x.erased = {} BY <1>12, <1>13 DEF State
<1>15. Edit(c, x) BY <1>6, <1>10, <1>11, <1>13
<1>16. i[1] = c /\ i[2] = 1 + Cardinality(own) BY <1>5, <1>10
<1>17. Placed(t, x)
  <2>1. \A n \in 1 .. i[2] - 1 : <<c, n>> \in Ids(t.doc)
    <3>1. \A n \in 1 .. Cardinality(own) : <<c, n>> \in Ids(t.doc) BY <1>7 DEF Numbered, own
    <3>2. i[2] - 1 = Cardinality(own) BY <1>3, <1>16
    <3> QED BY <3>1, <3>2
  <2> QED BY <1>12, <1>14, <1>16, <2>1 DEF Placed
<1>18. \A r : r.doc.blocks = t.doc.blocks \cup x.blocks => Numbered(c, r)
  <2> SUFFICES ASSUME NEW r, r.doc.blocks = t.doc.blocks \cup {a} PROVE Numbered(c, r) BY <1>14
  <2>1. a.id = <<c, 1 + Cardinality(Own(c, t.doc))>> BY <1>5, <1>10, <1>12 DEF own
  <2> QED BY <1>7, <2>1, NumberedAdds
<1>19. \A q \in x.blocks : q.id[1] = c BY <1>12, <1>14, <1>16
<1> QED BY <1>14, <1>15, <1>17, <1>18, <1>19, CalmEdit DEF t

LEMMA CalmErase == ASSUME SessInv, Calm, NEW c \in Clients, Erase(c) PROVE Calm'
<1>1. tab[c] \in TabRow BY BeforeStep
<1>2. tab[c].doc.blocks \subseteq Block BY <1>1 DEF TabRow, State
<1>3. PICK b \in Ids(tab[c].doc) : Edit(c, [blocks |-> {}, erased |-> {b}]) BY DEF Erase
<1>4. b \in Id BY <1>2 DEF Ids, Block
<1>5. PICK x : x = [blocks |-> {}, erased |-> {b}] OBVIOUS
<1>6. x \in State /\ x.blocks = {} /\ x.erased = {b} BY <1>4, <1>5 DEF State
<1>7. Placed(tab[c], x) BY <1>6 DEF Placed
<1>8. Numbered(c, tab[c]) BY DEF Calm
<1>9. \A r : r.doc.blocks = tab[c].doc.blocks \cup x.blocks => Numbered(c, r) BY <1>6, <1>8 DEF Numbered, Own, Ids
<1>10. \A q \in x.blocks : q.id[1] = c BY <1>6
<1>11. Edit(c, x) BY <1>3, <1>5
<1> QED BY <1>6, <1>7, <1>9, <1>10, <1>11, CalmEdit

\* The tab sends what has waited, or lets the timer go.
LEMMA CalmFlush == ASSUME SessInv, Calm, NEW c \in Clients, Flush(c) PROVE Calm'
<1> DEFINE k == tab[c]
           u == up[c]
           d == down[c]
           quiet == [k EXCEPT !.timer = FALSE]
<1>0. /\ k \in TabRow /\ ClientFits(epoch, log, k, socket[c], u, d, made[c]) /\ up = Put(up, c, u) /\ down = Put(down, c, d)
      /\ Shaped(k, socket[c], u, d, made[c])
  BY BeforeStep
<1>1. CalmClient(epoch, log, k, u, d) /\ Numbered(c, k) /\ SignedQueues(tab, k, u, d) BY DEF Calm
<1>2. UNCHANGED <<epoch, log, down>> /\ ((k.canSend /\ Transmit(c, [quiet EXCEPT !.updates = Empty], "update", k.updates)) \/ Become(c, quiet))
  BY DEF Flush
<1>3. CASE Become(c, quiet)
  <2>1. PICK t : t = quiet OBVIOUS
  <2>2. /\ t.status = k.status /\ t.doc = k.doc /\ t.epoch = k.epoch /\ t.updates = k.updates /\ t.inFlight = k.inFlight
        /\ t.seeding = k.seeding
    BY <1>0, <2>1 DEF TabRow
  <2>3. tab' = Put(tab, c, t) /\ up' = Put(up, c, u) /\ down' = Put(down, c, d)
    BY <1>0, <1>2, <1>3, <2>1, AllOnClients DEF OnClients, Put, Become
  <2> HIDE DEF k, u, d, quiet
  <2>4. CalmClient(epoch, log, t, u, d)
    BY <1>1, <2>2 DEF CalmClient, Gapless, Sequenced, Unread, Started, Awaited, Warned, Live
  <2>5. Numbered(c, t) BY <1>1, <2>2 DEF Numbered
  <2>6. tab[c].doc.blocks \subseteq t.doc.blocks BY <2>2 DEF k
  <2>7. SignedQueues(tab', t, u, d)
    <3>1. Grows(tab, tab') BY <2>3, <2>6, PutGrows
    <3>2. SignedQueues(tab', k, u, d) BY <1>0, <1>1, <3>1, SignedRows
    <3> QED BY <2>2, <3>2 DEF SignedQueues
  <2> QED BY <1>2, <2>3, <2>4, <2>5, <2>6, <2>7, CalmTab
<1>4. CASE k.canSend /\ Transmit(c, [quiet EXCEPT !.updates = Empty], "update", k.updates)
  <2>1. PICK b : b = [k EXCEPT !.timer = FALSE, !.updates = Empty] OBVIOUS
  <2>2. Empty \in State BY DEF Empty, State
  <2>3. /\ b \in TabRow /\ b.status = k.status /\ b.doc = k.doc /\ b.epoch = k.epoch /\ b.updates = Empty
        /\ b.inFlight = k.inFlight /\ b.request = k.request
    BY <1>0, <2>1, <2>2 DEF TabRow
  <2>4. PICK t : t = Asked(b) OBVIOUS
  <2>5. PICK x : x = Request(b, "update", k.updates) OBVIOUS
  <2>6. Transmit(c, b, "update", k.updates) BY <1>4, <2>1
  <2>7. tab' = [tab EXCEPT ![c] = t] /\ up' = [up EXCEPT ![c] = Append(u, x)]
    BY <2>4, <2>5, <2>6, AllOnClients DEF OnClients, Transmit, Asked, Request
  <2>8. /\ t.inFlight = k.inFlight \cup {<<b.request + 1, b.revision>>} /\ t.epoch = k.epoch /\ t.doc = k.doc
        /\ t.status = k.status /\ t.updates = Empty
    BY <2>3, <2>4, AskedFields
  <2>9. b.request \in Nat /\ b.epoch \in Nat /\ k.updates \in State BY <1>0, <2>3 DEF TabRow
  <2>10. x \in Upward /\ x.id = b.request + 1 /\ x.type = "update" /\ x.state = k.updates BY <2>5, <2>9 DEF Request, Upward
  <2>11. k.status = "connected" /\ k.epoch # 0 BY <1>0, <1>4 DEF ClientFits, TabFits
  <2> DEFINE w == Append(u, x)
  <2>12. Longer(u, x, w) BY <1>0, <2>10, LongerOf DEF Shaped
  <2>13. tab' = Put(tab, c, t) /\ up' = Put(up, c, w) /\ down' = Put(down, c, d)
    BY <1>0, <1>2, <2>7, AllOnClients DEF OnClients, Put
  <2> HIDE DEF k, u, d, quiet, w
  <2>14. CalmClient(epoch, log, t, w, d)
    <3>1. PICK f : f = <<b.request + 1, b.revision>> OBVIOUS
    <3>2. f[1] = x.id /\ x.id # 0 /\ t.inFlight = k.inFlight \cup {f} BY <2>8, <2>9, <2>10, <3>1
    <3>3. IF x.type = "seed" THEN OneStart(x.state) ELSE Starts(x.state) = {} BY <1>1, <2>10 DEF CalmClient, Started
    <3>4. Live(k) /\ Unrefused(d) /\ k.epoch = epoch =>
            Founded(log, u, Len(u), x.state) /\ Arrives(log, u, x.state, t.doc)
      BY <1>1, <2>8, <2>10 DEF CalmClient, Gapless, Sequenced
    <3>5. Live(t) => Live(k) BY <2>8 DEF Live
    <3>6. t.status # "disconnected" BY <2>8, <2>11
    <3> QED BY <1>1, <2>8, <2>11, <2>12, <3>2, <3>3, <3>4, <3>5, <3>6, CalmAsks
  <2>15. Numbered(c, t) BY <1>1, <2>8 DEF Numbered
  <2>16. tab[c].doc.blocks \subseteq t.doc.blocks BY <2>8 DEF k
  <2>17. SignedQueues(tab', t, w, d)
    <3>1. Grows(tab, tab') BY <2>13, <2>16, PutGrows
    <3>2. SignedQueues(tab', k, u, d) BY <1>0, <1>1, <3>1, SignedRows
    <3>3. \A i \in DOMAIN w : (i \in DOMAIN u /\ w[i] = u[i]) \/ w[i] = x BY <2>12 DEF Longer
    <3>4. Signed(tab', Empty) BY DEF Signed, Empty
    <3> QED BY <2>8, <2>10, <3>2, <3>3, <3>4 DEF SignedQueues
  <2> QED BY <1>2, <2>13, <2>14, <2>15, <2>16, <2>17, CalmTab
<1> QED BY <1>2, <1>3, <1>4

\* The tab takes a message, and with it at most what is in x.
LEMMA CalmReceives ==
  ASSUME SessInv, Calm, NEW c \in Clients, UNCHANGED <<epoch, log, up>>, down[c] # <<>>, down' = Put(down, c, Tail(down[c])),
         NEW t, tab' = Put(tab, c, t), NEW x \in State, Signed(tab, x), tab[c].doc.blocks \subseteq t.doc.blocks,
         t.doc.blocks \subseteq tab[c].doc.blocks \cup x.blocks, t.updates = tab[c].updates,
         CalmClient(epoch, log, t, up[c], Tail(down[c]))
  PROVE  Calm'
<1> DEFINE k == tab[c]
           u == up[c]
           d == down[c]
<1>0. Shaped(k, socket[c], u, d, made[c]) /\ up = Put(up, c, u) BY BeforeStep
<1>1. Numbered(c, k) /\ SignedQueues(tab, k, u, d) BY DEF Calm
<1>2. Grows(tab, tab') BY PutGrows
<1>3. SignedQueues(tab', k, u, d) BY <1>0, <1>1, <1>2, SignedRows
<1>4. Signed(tab', x) BY <1>2, SignedGrows
<1>5. Shorter(d, Tail(d)) BY <1>0, QueueRows
<1>6. up' = Put(up, c, u) BY <1>0
<1> HIDE DEF u, d
<1>7. SignedQueues(tab', t, u, Tail(d))
  <2>1. \A i \in DOMAIN Tail(d) : i + 1 \in DOMAIN d /\ Tail(d)[i] = d[i + 1] BY <1>5 DEF Shorter
  <2>2. Signed(tab', t.doc) BY <1>3, <1>4 DEF Signed, SignedQueues
  <2> QED BY <1>3, <2>1, <2>2 DEF SignedQueues
<1>8. Numbered(c, t)
  <2>1. Signed(tab, x) /\ tab[c] = k OBVIOUS
  <2> QED BY <1>1, <2>1, NumberedTakes
<1>9. down' = Put(down, c, Tail(d)) /\ CalmClient(epoch, log, t, u, Tail(d)) BY DEF u, d
<1> QED BY <1>6, <1>7, <1>8, <1>9, CalmTab

\* The tab stops.
LEMMA CalmRests ==
  ASSUME SessInv, Calm, NEW c \in Clients, UNCHANGED <<epoch, log>>, down[c] # <<>>, down' = Put(down, c, Tail(down[c])),
         NEW t, Become(c, t), Rests(tab[c], t)
  PROVE  Calm'
<1> DEFINE k == tab[c]
           u == up[c]
           d == down[c]
<1>0. Shaped(k, socket[c], u, d, made[c]) BY BeforeStep
<1>1. CalmClient(epoch, log, k, u, d) BY DEF Calm
<1>2. Shorter(d, Tail(d)) BY <1>0, QueueRows
<1>3. tab' = Put(tab, c, t) /\ up' = up BY AllOnClients DEF OnClients, Put, Become
<1>4. CalmClient(epoch, log, t, u, Tail(d))
  <2>1. \A i \in DOMAIN Tail(d) : \E j \in DOMAIN d : Tail(d)[i] = d[j]
    <3>1. \A i \in DOMAIN Tail(d) : i + 1 \in DOMAIN d /\ Tail(d)[i] = d[i + 1] BY <1>2 DEF Shorter
    <3> QED BY <3>1
  <2>2. PICK v : v = Tail(d) OBVIOUS
  <2>3. Rests(k, t) OBVIOUS
  <2> HIDE DEF k, u, d
  <2>4. \A i \in DOMAIN u : \E j \in DOMAIN u : u[i] = u[j] OBVIOUS
  <2>5. \A i \in DOMAIN v : \E j \in DOMAIN d : v[i] = d[j] BY <2>1, <2>2
  <2>6. CalmClient(epoch, log, t, u, v) BY <1>1, <2>3, <2>4, <2>5, CalmStops
  <2> QED BY <2>2, <2>6
<1>5. Empty \in State /\ Signed(tab, Empty) BY DEF Empty, State, Signed
<1>6. /\ tab[c].doc.blocks \subseteq t.doc.blocks /\ t.doc.blocks \subseteq tab[c].doc.blocks \cup Empty.blocks
      /\ t.updates = tab[c].updates
  BY DEF Rests
<1> QED BY <1>3, <1>4, <1>5, <1>6, CalmReceives

\* Nobody is told that a part is missing: the tab stops at the first refusal.
LEMMA CalmFailed ==
  ASSUME SessInv, Calm, NEW c \in Clients, UNCHANGED <<epoch, log>>, down[c] # <<>>, down' = Put(down, c, Tail(down[c])),
         tab[c].status \in {"syncing", "connected"}, Failed(c, down[c][1])
  PROVE  Calm'
<1>1. Shaped(tab[c], socket[c], up[c], down[c], made[c]) /\ tab[c] \in TabRow BY BeforeStep
<1>2. 1 \in DOMAIN down[c] /\ \A j \in DOMAIN down[c] : ~ j < 1 BY <1>1 DEF Shaped
<1>3. Warned(tab[c], down[c]) BY DEF Calm, CalmClient
<1>4. down[c][1].type # "missing_state" BY <1>2, <1>3 DEF Warned, Live
<1>5. Stop(c, "error") BY <1>4 DEF Failed
<1>6. PICK t : t = [tab[c] EXCEPT !.status = "error", !.canSend = FALSE] OBVIOUS
<1>7. Rests(tab[c], t) BY <1>1, <1>6 DEF Rests, TabRow, Stopped
<1>8. Become(c, t) BY <1>5, <1>6 DEF Stop
<1> QED BY <1>7, <1>8, CalmRests

LEMMA CalmReset ==
  ASSUME SessInv, Calm, NEW c \in Clients, UNCHANGED <<epoch, log>>, down[c] # <<>>, down' = Put(down, c, Tail(down[c])),
         Reset(c, down[c][1])
  PROVE  Calm'
<1> DEFINE k == tab[c]
           m == down[c][1]
<1>1. k \in TabRow /\ ClientFits(epoch, log, k, socket[c], up[c], down[c], made[c]) BY BeforeStep
<1>2. (\A f \in k.inFlight : f[2] <= k.revision) /\ k.saved <= k.revision /\ k.inFlight \in SUBSET (Nat \X Nat)
  BY <1>1 DEF ClientFits, TabFits, TabRow
<1>3. PICK q : q = IF m.committed THEN Acknowledged(k, m) ELSE k OBVIOUS
<1>4. /\ q.epoch = k.epoch /\ q.doc = k.doc /\ q.updates = k.updates /\ q.seeding = k.seeding /\ q.inFlight \subseteq k.inFlight
      /\ q \in TabRow
  <2>1. CASE m.committed
    <3>0. q = Acknowledged(k, m) BY <1>3, <2>1
    <3> HIDE DEF k, m
    <3>1. /\ Acknowledged(k, m) = [k EXCEPT !.saved = Acknowledged(k, m).saved, !.inFlight = {f \in k.inFlight : f[1] # m.id}]
          /\ Acknowledged(k, m).saved \in Nat
      BY <1>1, <1>2, AcknowledgedTab
    <3>2. PICK saved \in Nat : saved = Acknowledged(k, m).saved BY <3>1
    <3>3. PICK flying \in SUBSET (Nat \X Nat) : flying = {f \in k.inFlight : f[1] # m.id} BY <1>2
    <3>4. q = [k EXCEPT !.saved = saved, !.inFlight = flying] BY <3>0, <3>1, <3>2, <3>3
    <3>5. flying \subseteq k.inFlight BY <3>3
    <3> QED BY <1>1, <3>4, <3>5 DEF TabRow
  <2>2. CASE ~ m.committed BY <1>1, <1>3, <2>2
  <2> QED BY <2>1, <2>2
<1>5. PICK t : t = [q EXCEPT !.status = "conflict", !.canSend = FALSE] OBVIOUS
<1>6. /\ t.status = "conflict" /\ t.epoch = q.epoch /\ t.doc = q.doc /\ t.updates = q.updates /\ t.seeding = q.seeding
      /\ t.inFlight = q.inFlight
  BY <1>4, <1>5 DEF TabRow
<1>7. Rests(tab[c], t) BY <1>4, <1>6 DEF Rests, Stopped
<1>8. Become(c, t) BY <1>3, <1>5 DEF Reset
<1> QED BY <1>7, <1>8, CalmRests

\* What is known of a tab that takes a state.
LEMMA CalmFirst ==
  ASSUME SessInv, Calm, NEW c \in Clients, down[c] # <<>>, IsState(down[c][1]), down[c][1].type # "reset",
         tab[c].status \in {"syncing", "connected"}, tab[c].epoch \in {0, down[c][1].epoch}
  PROVE  LET k == tab[c]
             u == up[c]
             d == down[c]
             m == down[c][1]
         IN  /\ k \in TabRow /\ m \in AnswerRow /\ epoch \in Nat /\ epoch # 0 /\ Shorter(d, Tail(d)) /\ CalmClient(epoch, log, k, u, d)
             /\ Live(k) /\ m.type \in {"hello", "sync", "ack"} /\ m.epoch # 0 /\ (k.epoch = 0 => DOMAIN u = {})
             /\ (DOMAIN u = {} => Len(u) = 0) /\ (\A i \in DOMAIN Tail(d) : Tail(d)[i].type # "hello")
             /\ m.state \in State /\ Signed(tab, m.state) /\ Tells(epoch, log, m)
             /\ (\A f \in k.inFlight : f[2] <= k.revision) /\ k.saved <= k.revision
             /\ (m.type = "hello" => u = <<>> /\ k.epoch = 0 /\ ~ k.initialized /\ k.status = "syncing")
<1> DEFINE k == tab[c]
           u == up[c]
           d == down[c]
           m == down[c][1]
<1>1. /\ k \in TabRow /\ epoch \in Nat /\ epoch # 0 /\ ClientFits(epoch, log, k, socket[c], u, d, made[c])
      /\ Shaped(k, socket[c], u, d, made[c])
  BY BeforeStep
<1>2. m \in AnswerRow /\ Truthful(epoch, log, m) /\ (m.type = "hello" => u = <<>> /\ k.status = "syncing") BY FirstMessage
<1>3. Shorter(d, Tail(d)) /\ 1 \in DOMAIN d BY <1>1, QueueRows
<1>4. CalmClient(epoch, log, k, u, d) /\ SignedQueues(tab, k, u, d) BY DEF Calm
<1>5. m.type \in {"hello", "sync", "ack"} /\ m.epoch # 0 /\ m.state \in State BY <1>2 DEF AnswerRow, StateType, Truthful
<1>6. k.epoch = 0 => DOMAIN u = {} BY <1>1 DEF ClientFits, QueuesFit, Requested
<1>7. DOMAIN u = {} => Len(u) = 0
  <2>1. u \in Seq(Upward) BY <1>1 DEF Shaped
  <2> HIDE DEF u
  <2> QED BY <2>1
<1>8. \A i \in DOMAIN Tail(d) : Tail(d)[i].type # "hello"
  <2>1. QueuesFit(k, u, d) BY <1>1 DEF ClientFits
  <2>2. Shorter(d, Tail(d)) BY <1>3
  <2> QED BY ONLY <2>1, <2>2, TakenDown
<1>9. Signed(tab, m.state) /\ Tells(epoch, log, m) BY <1>3, <1>4 DEF SignedQueues, CalmClient
<1>10. (\A f \in k.inFlight : f[2] <= k.revision) /\ k.saved <= k.revision BY <1>1 DEF ClientFits, TabFits
<1>11. m.type = "hello" => k.epoch = 0 /\ ~ k.initialized
  <2>1. m.type = "hello" => k.epoch = 0 BY <1>3, <1>4 DEF CalmClient, Unread
  <2> QED BY <1>1, <2>1 DEF ClientFits, TabFits
<1>12. Live(k) BY DEF Live
<1> QED BY <1>1, <1>2, <1>3, <1>4, <1>5, <1>6, <1>7, <1>8, <1>9, <1>10, <1>11, <1>12

LEMMA CalmSync ==
  ASSUME SessInv, Calm, NEW c \in Clients, UNCHANGED <<epoch, log>>, down[c] # <<>>, down' = Put(down, c, Tail(down[c])),
         tab[c].status \in {"syncing", "connected"}, IsState(down[c][1]),
         down[c][1].type # "reset", tab[c].epoch \in {0, down[c][1].epoch}, Sync(c, down[c][1])
  PROVE  Calm'
<1> DEFINE k == tab[c]
           u == up[c]
           d == down[c]
           m == down[c][1]
<1>1. /\ k \in TabRow /\ m \in AnswerRow /\ epoch \in Nat /\ epoch # 0 /\ Shorter(d, Tail(d)) /\ CalmClient(epoch, log, k, u, d)
      /\ Live(k) /\ m.type \in {"hello", "sync", "ack"} /\ m.epoch # 0 /\ (k.epoch = 0 => DOMAIN u = {})
      /\ (DOMAIN u = {} => Len(u) = 0) /\ (\A i \in DOMAIN Tail(d) : Tail(d)[i].type # "hello")
      /\ m.state \in State /\ Signed(tab, m.state)
      /\ (\A f \in k.inFlight : f[2] <= k.revision) /\ k.saved <= k.revision /\ (m.type = "hello" => ~ k.initialized)
  BY CalmFirst
<1>2. PICK t : t = Synced(k, m) OBVIOUS
<1>3. /\ t.status = "connected" /\ t.doc = Merge(k.doc, m.state) /\ t.epoch = m.epoch /\ t.updates = k.updates
      /\ t.inFlight \subseteq k.inFlight /\ (m.type = "ack" => \A f \in t.inFlight : f[1] # m.id)
  BY <1>1, <1>2, SyncedTab
<1>4. ~ Resends(c, m) BY <1>1 DEF Resends
<1>5. Become(c, t) BY <1>2, <1>4 DEF Sync
<1>6. tab' = Put(tab, c, t) /\ up' = up BY <1>5, AllOnClients DEF OnClients, Put, Become
<1>7. t.doc.blocks = k.doc.blocks \cup m.state.blocks /\ t.doc.erased = k.doc.erased \cup m.state.erased BY <1>3 DEF Merge
<1>8. CalmClient(epoch, log, t, u, Tail(d))
  <2>1. PICK v : v = Tail(d) OBVIOUS
  <2>2. k.epoch \in {0, m.epoch} OBVIOUS
  <2>3. \A f \in t.inFlight : f \in k.inFlight /\ (m.type = "ack" => f[1] # m.id) BY <1>3
  <2>4. t.status # "disconnected" BY <1>3
  <2>5. d[1] = m OBVIOUS
  <2> HIDE DEF k, u, d, m
  <2>6. CalmClient(epoch, log, t, u, v) BY <1>1, <1>3, <1>7, <2>1, <2>2, <2>3, <2>4, <2>5, CalmTakes
  <2> QED BY <2>1, <2>6
<1>9. tab[c].doc.blocks \subseteq t.doc.blocks /\ t.doc.blocks \subseteq tab[c].doc.blocks \cup m.state.blocks BY <1>7
<1> QED BY <1>1, <1>3, <1>6, <1>8, <1>9, CalmReceives

\* The tab shows nothing yet and is the first to seed.
LEMMA CalmSeed ==
  ASSUME SessInv, Calm, NEW c \in Clients, UNCHANGED <<epoch, log>>, down[c] # <<>>, down' = Put(down, c, Tail(down[c])),
         tab[c].status \in {"syncing", "connected"}, IsState(down[c][1]),
         down[c][1].type # "reset", tab[c].epoch \in {0, down[c][1].epoch}, Seed(c, down[c][1])
  PROVE  Calm'
<1> DEFINE k == tab[c]
           u == up[c]
           d == down[c]
           m == down[c][1]
<1>1. /\ k \in TabRow /\ m \in AnswerRow /\ epoch \in Nat /\ epoch # 0 /\ Shorter(d, Tail(d)) /\ CalmClient(epoch, log, k, u, d)
      /\ Live(k) /\ m.type \in {"hello", "sync", "ack"} /\ m.epoch # 0 /\ (k.epoch = 0 => DOMAIN u = {})
      /\ (DOMAIN u = {} => Len(u) = 0) /\ (\A i \in DOMAIN Tail(d) : Tail(d)[i].type # "hello")
      /\ m.state \in State /\ Signed(tab, m.state) /\ Tells(epoch, log, m)
      /\ (m.type = "hello" => k.epoch = 0 /\ ~ k.initialized /\ k.status = "syncing")
  BY CalmFirst
<1>2. Shaped(k, socket[c], u, d, made[c]) BY BeforeStep
<1>3. m.sequence = 0 /\ m.type # "ack" BY <1>1 DEF Seed, Tells
<1>4. PICK t : t = [Noted(k, m) EXCEPT !.status = IF m.type = "hello" THEN "syncing" ELSE @] OBVIOUS
<1>5. /\ t \in TabRow /\ t.status = k.status /\ t.epoch = m.epoch /\ t.initialized = k.initialized /\ t.updates = k.updates
      /\ t.inFlight = k.inFlight /\ t.doc = k.doc /\ t.seeding = k.seeding
  <2> HIDE DEF k, m
  <2>1. PICK n : n = Noted(k, m) OBVIOUS
  <2>2. m.epoch \in Nat /\ m.sequence \in Nat /\ m.canWrite \in BOOLEAN BY <1>1 DEF AnswerRow
  <2>3. /\ n \in TabRow /\ n.status = k.status /\ n.epoch = m.epoch /\ n.initialized = k.initialized /\ n.updates = k.updates
        /\ n.inFlight = k.inFlight /\ n.doc = k.doc /\ n.seeding = k.seeding
    BY <1>1, <2>1, <2>2 DEF Noted, TabRow
  <2>4. t = n BY <1>1, <1>4, <2>1, <2>3 DEF TabRow
  <2> QED BY <2>3, <2>4
<1>6. PICK v : v = Tail(d) OBVIOUS
<1>7. CalmClient(epoch, log, t, u, v)
  <2>1. d[1] = m /\ k.epoch \in {0, m.epoch} OBVIOUS
  <2>2. t.status # "disconnected" BY <1>1, <1>5 DEF Live
  <2> HIDE DEF k, u, d, m
  <2>3. Shorter(d, v) /\ \A i \in DOMAIN v : v[i].type # "hello" BY <1>1, <1>6
  <2> QED BY <1>1, <1>3, <1>5, <2>1, <2>2, <2>3, CalmTakes
<1>8. CASE m.type = "hello" /\ m.canWrite
  <2>1. k.epoch = 0 /\ ~ k.initialized BY <1>1, <1>8
  <2>2. k.doc = Empty /\ k.updates = Empty /\ k.inFlight = {} /\ ~ k.seeding BY <1>1, <2>1 DEF CalmClient, Unread
  <2>3. Starts(t.doc) = {} /\ k.doc.blocks = {} /\ k.doc.erased = {} BY <1>5, <2>2 DEF Starts, Empty
  <2>4. Own(c, k.doc) = {} /\ Cardinality(Own(c, k.doc)) = 0
    <3>1. Own(c, k.doc) = {} BY <2>3 DEF Own
    <3> QED BY <3>1, FS_EmptySet
  <2>5. NextId(c) = <<c, 1>>
    <3>1. NextId(c) = <<c, 1 + Cardinality(Own(c, k.doc))>> BY DEF NextId, Own
    <3> QED BY <2>4, <3>1
  <2>6. <<c, 1>> \in Id BY BoundsAssumption DEF Id
  <2>7. PICK a \in Block : a = [id |-> <<c, 1>>, on |-> Root] BY <2>6 DEF Block
  <2>8. a.id = <<c, 1>> /\ a.id[1] = c /\ a.id[2] = 1 /\ a.on = Root BY <2>7
  <2>9. PICK y : y = [t.doc EXCEPT !.blocks = @ \cup {a}] OBVIOUS
  <2>10. y \in State /\ y.blocks = {a} /\ y.erased = {}
    <3>1. t.doc \in State /\ t.doc.blocks = {} /\ t.doc.erased = {} BY <1>5, <2>3 DEF TabRow
    <3>2. y \in State /\ y.blocks = t.doc.blocks \cup {a} /\ y.erased = t.doc.erased BY <2>9, <3>1 DEF State
    <3> QED BY <3>1, <3>2
  <2>11. PICK loaded : loaded = [t EXCEPT !.doc = y] OBVIOUS
  <2>12. [t EXCEPT !.doc.blocks = @ \cup {[id |-> NextId(c), on |-> Root]}] = loaded
    <3>1. [t EXCEPT !.doc.blocks = @ \cup {a}] = [t EXCEPT !.doc = [t.doc EXCEPT !.blocks = @ \cup {a}]] BY <1>5 DEF TabRow
    <3>2. [id |-> NextId(c), on |-> Root] = a BY <2>5, <2>7
    <3> QED BY <2>9, <2>11, <3>1, <3>2
  <2>13. Transmit(c, [loaded EXCEPT !.seeding = TRUE, !.revision = @ + 1], "seed", loaded.doc)
    <3>1. ~ t.initialized /\ ~ t.seeding BY <1>5, <2>1, <2>2
    <3> QED BY <1>4, <1>8, <2>3, <2>12, <3>1 DEF Seed
  <2>14. /\ loaded \in TabRow /\ loaded.doc = y /\ loaded.status = t.status /\ loaded.epoch = t.epoch
         /\ loaded.updates = t.updates /\ loaded.inFlight = t.inFlight
    BY <1>5, <2>10, <2>11 DEF TabRow
  <2>15. PICK b : b = [loaded EXCEPT !.seeding = TRUE, !.revision = @ + 1] OBVIOUS
  <2>16. /\ b \in TabRow /\ b.doc = y /\ b.status = t.status /\ b.epoch = t.epoch /\ b.updates = t.updates
         /\ b.inFlight = t.inFlight
    <3>1. loaded.revision \in Nat BY <2>14 DEF TabRow
    <3>2. PICK next \in Nat : next = loaded.revision + 1 BY <3>1
    <3>3. b = [loaded EXCEPT !.seeding = TRUE, !.revision = next] BY <2>15, <3>2
    <3>4. /\ b \in TabRow /\ b.doc = loaded.doc /\ b.status = loaded.status /\ b.epoch = loaded.epoch
          /\ b.updates = loaded.updates /\ b.inFlight = loaded.inFlight
      BY ONLY <2>14, <3>3, next \in Nat DEF TabRow
    <3> QED BY <2>14, <3>4
  <2>17. PICK r : r = Asked(b) OBVIOUS
  <2>18. PICK x : x = Request(b, "seed", y) OBVIOUS
  <2>19. tab' = [tab EXCEPT ![c] = r] /\ up' = [up EXCEPT ![c] = Append(u, x)]
    <3>1. Transmit(c, b, "seed", y) BY <2>13, <2>14, <2>15
    <3> QED BY <2>17, <2>18, <3>1, AllOnClients DEF OnClients, Transmit, Asked, Request
  <2>20. /\ r.inFlight = t.inFlight \cup {<<b.request + 1, b.revision>>} /\ r.epoch = t.epoch /\ r.doc = y
         /\ r.status = t.status /\ r.updates = t.updates
    BY <2>16, <2>17, AskedFields
  <2>21. b.request \in Nat /\ b.epoch \in Nat BY <2>16 DEF TabRow
  <2>22. x \in Upward /\ x.id = b.request + 1 /\ x.type = "seed" /\ x.state = y BY <2>10, <2>18, <2>21 DEF Request, Upward
  <2> DEFINE w == Append(u, x)
  <2>23. Longer(u, x, w) BY <1>2, <2>22, LongerOf DEF Shaped
  <2>24. tab' = Put(tab, c, r) /\ up' = Put(up, c, w) /\ down' = Put(down, c, v)
    BY <1>6, <2>19, AllOnClients DEF OnClients, Put
  <2>25. Numbered(c, k) /\ SignedQueues(tab, k, u, d) /\ Shorter(d, v) BY <1>1, <1>6 DEF Calm
  <2>26. t.epoch # 0 /\ t.status # "disconnected" BY <1>1, <1>5 DEF Live
  <2> HIDE DEF k, u, d, m, w
  <2>27. CalmClient(epoch, log, r, w, v)
    <3>1. PICK f : f = <<b.request + 1, b.revision>> OBVIOUS
    <3>2. f[1] = x.id /\ x.id # 0 /\ r.inFlight = t.inFlight \cup {f} BY <2>20, <2>21, <2>22, <3>1
    <3>3. IF x.type = "seed" THEN OneStart(x.state) ELSE Starts(x.state) = {} BY <2>10, <2>22 DEF OneStart, Starts
    <3>4. Founded(log, u, Len(u), x.state) /\ Arrives(log, u, x.state, r.doc)
      BY <2>8, <2>10, <2>20, <2>22 DEF Founded, Arrives
    <3>5. Live(r) => Live(t) BY <2>20 DEF Live
    <3>6. r.status # "disconnected" /\ r.updates = Empty BY <1>5, <2>2, <2>20, <2>26
    <3>7. r.epoch = t.epoch BY <2>20
    <3> QED BY <1>7, <2>23, <2>26, <3>2, <3>3, <3>4, <3>5, <3>6, <3>7, CalmAsks
  <2>28. r.doc.blocks = k.doc.blocks \cup {a} BY <2>3, <2>10, <2>20
  <2>29. Numbered(c, r)
    <3>1. a.id = <<c, 1 + Cardinality(Own(c, k.doc))>> BY <2>4, <2>8
    <3> QED BY <2>25, <2>28, <3>1, NumberedAdds
  <2>30. tab[c].doc.blocks \subseteq r.doc.blocks BY <2>28 DEF k
  <2>31. SignedQueues(tab', r, w, v)
    <3>1. Grows(tab, tab') BY <2>24, <2>30, PutGrows
    <3>2. SignedQueues(tab', k, u, d) BY <1>2, <2>25, <3>1, SignedRows
    <3>3. \A i \in DOMAIN w : (i \in DOMAIN u /\ w[i] = u[i]) \/ w[i] = x BY <2>23 DEF Longer
    <3>4. Signed(tab', Empty) BY DEF Signed, Empty
    <3>5. Signed(tab', y)
      <4>1. tab'[c] = r BY <2>24 DEF Put
      <4> QED BY <2>8, <2>10, <2>20, <4>1 DEF Signed
    <3>6. \A i \in DOMAIN v : i + 1 \in DOMAIN d /\ v[i] = d[i + 1] BY <2>25 DEF Shorter
    <3>7. r.updates = Empty /\ r.doc = y /\ x.state = y BY <1>5, <2>2, <2>20, <2>22
    <3> QED BY <3>2, <3>3, <3>4, <3>5, <3>6, <3>7 DEF SignedQueues
  <2> QED BY <2>24, <2>27, <2>29, <2>30, <2>31, CalmTab
<1>9. CASE ~ (m.type = "hello" /\ m.canWrite)
  <2>1. Become(c, t) BY <1>4, <1>9 DEF Seed
  <2>2. tab' = Put(tab, c, t) /\ up' = up BY <2>1, AllOnClients DEF OnClients, Put, Become
  <2>3. /\ tab[c].doc.blocks \subseteq t.doc.blocks /\ t.doc.blocks \subseteq tab[c].doc.blocks \cup m.state.blocks
        /\ t.updates = tab[c].updates /\ CalmClient(epoch, log, t, up[c], Tail(down[c]))
    BY <1>5, <1>6, <1>7
  <2> QED BY <1>1, <2>2, <2>3, CalmReceives
<1> QED BY <1>8, <1>9

LEMMA CalmReceive == ASSUME SessInv, Calm, NEW c \in Clients, Receive(c) PROVE Calm'
<1> DEFINE m == down[c][1]
<1>1. /\ down[c] # <<>> /\ tab[c].status \in {"syncing", "connected"} /\ down' = [down EXCEPT ![c] = Tail(@)]
      /\ UNCHANGED <<epoch, log>>
      /\ \/ ~ IsState(m) /\ Failed(c, m)
         \/ IsState(m) /\ Reset(c, m)
         \/ /\ IsState(m) /\ m.type # "reset" /\ tab[c].epoch \in {0, m.epoch}
            /\ Sync(c, m) \/ Seed(c, m)
  BY DEF Receive, IsState, StateType
<1>2. down' = Put(down, c, Tail(down[c])) BY <1>1, AllOnClients DEF OnClients, Put
<1>3. CASE ~ IsState(m) /\ Failed(c, m) BY <1>1, <1>2, <1>3, CalmFailed
<1>4. CASE IsState(m) /\ Reset(c, m) BY <1>1, <1>2, <1>4, CalmReset
<1>5. CASE IsState(m) /\ m.type # "reset" /\ tab[c].epoch \in {0, m.epoch} /\ Sync(c, m) BY <1>1, <1>2, <1>5, CalmSync
<1>6. CASE IsState(m) /\ m.type # "reset" /\ tab[c].epoch \in {0, m.epoch} /\ Seed(c, m) BY <1>1, <1>2, <1>6, CalmSeed
<1> QED BY <1>1, <1>3, <1>4, <1>5, <1>6

LEMMA InitCalm == ASSUME Init PROVE CalmInv
<1>1. /\ epoch = 1 /\ log = <<>> /\ drops = 0
      /\ \A c \in Clients : tab[c] = NewTab /\ up[c] = <<>> /\ down[c] = <<>>
  BY DEF Init
<1>2. Final(log) = Empty BY <1>1 DEF Final
<1>3. PICK t : t = NewTab OBVIOUS
<1>4. t.status = "disconnected" /\ t.doc = Empty /\ t.updates = Empty /\ t.epoch = 0 /\ t.inFlight = {} /\ ~ t.seeding
  BY <1>3 DEF NewTab
<1>5. CalmClient(1, <<>>, t, <<>>, <<>>)
  <2>1. Gapless(1, <<>>, t, <<>>, <<>>) /\ Awaited(t, <<>>, <<>>) /\ Warned(t, <<>>)
    BY <1>4 DEF Gapless, Awaited, Warned, Live
  <2>2. Unread(t, <<>>) BY <1>4 DEF Unread
  <2>3. Started(t, <<>>) BY <1>4 DEF Started, Starts, Empty
  <2> QED BY <2>1, <2>2, <2>3 DEF CalmClient
<1>6. ASSUME NEW c \in Clients PROVE Numbered(c, t)
  <2>1. Own(c, t.doc) = {} BY <1>4 DEF Own, Empty
  <2>2. IsFiniteSet(Own(c, t.doc)) /\ Cardinality(Own(c, t.doc)) = 0 BY <2>1, FS_EmptySet
  <2> QED BY <2>1, <2>2 DEF Numbered
<1>7. SignedQueues(tab, t, <<>>, <<>>) BY <1>4 DEF SignedQueues, Signed, Empty
<1>8. OneStart(Final(log)) /\ Signed(tab, Final(log)) BY <1>2 DEF OneStart, Starts, Signed, Empty
<1>9. Calm BY <1>1, <1>3, <1>5, <1>6, <1>7, <1>8 DEF Calm
<1> QED BY <1>1, <1>9 DEF CalmInv

\* While no connection has been broken, no handler breaks what that promises.
LEMMA StepCalm == ASSUME SessInv, CalmInv, [Next]_vars PROVE CalmInv'
<1>1. drops \in Nat BY DEF CalmInv
<1>2. CASE Replace
  <2>1. drops' = drops BY <1>2 DEF Replace
  <2> QED BY <1>1, <1>2, <2>1, CalmReplace DEF CalmInv
<1>3. CASE \E c \in Clients : Step(c)
  <2>1. PICK c \in Clients : Step(c) BY <1>3
  <2>2. CASE Drop(c)
    <3>1. drops' = drops + 1 BY <2>2 DEF Drop
    <3> QED BY <1>1, <3>1 DEF CalmInv
  <2>3. CASE Handle(c) \/ Poll(c) \/ Connect(c) \/ Flush(c) \/ Receive(c)
    <3>1. drops' = drops BY <2>3 DEF Handle, Poll, Connect, Flush, Receive
    <3>2. drops = 0 => Calm' BY <2>3, CalmHandle, CalmPoll, CalmConnect, CalmFlush, CalmReceive DEF CalmInv
    <3> QED BY <1>1, <3>1, <3>2 DEF CalmInv
  <2>4. CASE Insert(c) \/ Erase(c) \/ Leave(c)
    <3>1. drops' = drops BY <2>4 DEF Insert, Erase, Edit, Leave
    <3>2. drops = 0 => Calm' BY <2>4, CalmInsert, CalmErase, CalmLeave DEF CalmInv
    <3> QED BY <1>1, <3>1, <3>2 DEF CalmInv
  <2>5. CASE Turn(c)
    <3>1. UNCHANGED <<epoch, log, tab, up, down, drops>> BY <2>5 DEF Turn
    <3> QED BY <1>1, <3>1, CalmStill DEF CalmInv
  <2> QED BY <2>1, <2>2, <2>3, <2>4, <2>5 DEF Step
<1>4. CASE UNCHANGED vars
  <2>1. UNCHANGED <<epoch, log, tab, up, down, drops>> BY <1>4 DEF vars
  <2> QED BY <1>1, <2>1, CalmStill DEF CalmInv
<1> QED BY <1>2, <1>3, <1>4 DEF Next

LEMMA CalmOrder == ASSUME SessInv, CalmInv PROVE CalmIsOrderly
<1>1. SeedsSerialized
  <2> SUFFICES ASSUME drops = 0 PROVE OneSeed BY DEF SeedsSerialized
  <2>1. OneStart(Final(log)) BY DEF CalmInv, Calm
  <2>2. Latest = Final(log) BY DEF Latest, Final
  <2>3. CASE Starts(Latest) = {} BY <2>3, FS_EmptySet DEF OneSeed
  <2>4. CASE Starts(Latest) # {}
    <3>1. PICK a : a \in Starts(Latest) BY <2>4
    <3>2. Starts(Latest) = {a} BY <2>1, <2>2, <3>1 DEF OneStart
    <3>3. Cardinality({a}) = 1 BY FS_Singleton
    <3> QED BY <3>2, <3>3 DEF OneSeed
  <2> QED BY <2>3, <2>4
<1>2. CommittingWaits
  <2> SUFFICES ASSUME NEW c \in Clients, drops = 0, SaveState(tab[c]) = "committing" PROVE up[c] # <<>> \/ down[c] # <<>>
    BY DEF CommittingWaits
  <2>1. tab[c] \in TabRow BY BeforeStep
  <2>2. PICK t \in TabRow : t = tab[c] BY <2>1
  <2>3. t.status = "connected" /\ t.inFlight # {}
    <3>1. t.status \in Status BY DEF TabRow
    <3>2. SaveState(t) = "committing" BY <2>2
    <3> QED BY <3>1, <3>2 DEF SaveState, Status, Stopped
  <2>4. Awaited(t, up[c], down[c]) BY <2>2 DEF CalmInv, Calm, CalmClient
  <2>5. (\E i \in DOMAIN up[c] : TRUE) \/ \E i \in DOMAIN down[c] : TRUE BY <2>3, <2>4 DEF Awaited, Live
  <2> QED BY <2>5
<1> QED BY <1>1, <1>2 DEF CalmIsOrderly

\* As long as no connection breaks: the document never grows from two seeds, and
\* a tab that says it is committing has something on its way to the server or back
\* (the seed transaction of mergeUpdate, sendUpdate and the ack of provider.ts).
THEOREM CalmStaysOrderly == Spec => []CalmIsOrderly
<1>1. Init => CalmInv BY InitCalm
<1>2. SessInv /\ CalmInv /\ [Next]_vars => CalmInv' BY StepCalm
<1>3. SessInv /\ CalmInv => CalmIsOrderly BY CalmOrder
<1> QED BY <1>1, <1>2, <1>3, SessionFits, PTL DEF Spec
=============================================================================
