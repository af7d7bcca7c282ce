---------------------------- MODULE RoutesProofs ----------------------------
(***************************************************************************)
(* Replies stay with their conversation, for any number of sessions,      *)
(* conversations, replies and receiver tasks.                             *)
(***************************************************************************)
EXTENDS UpstreamRoutes, FiniteSetTheorems, TLAPS

\* What the engine side keeps finite.
EngineOK ==
    /\ opened \in Nat
    /\ DOMAIN live \subseteq SessionIds
    /\ DOMAIN kept \subseteq SessionIds
    /\ \A s \in DOMAIN live : /\ DOMAIN live[s] = {"held", "bound"}
                              /\ live[s].held \subseteq 1 .. opened
    /\ \A s \in DOMAIN kept : kept[s] \subseteq 1 .. opened

IsKey(key) == key = Key(key[1], key[2])

\* The socket was opened for the conversation of this key.
Serves(socket, key) == socket \in DOMAIN sockets /\ sockets[socket].opened_for = key[2]

\* A table of routes, in the service or on its way through a migration.
TableOK(table) ==
    /\ IsFiniteSet(DOMAIN table)
    /\ \A key \in DOMAIN table : IsKey(key) /\ Serves(table[key], key)

OpOK(action) ==
    /\ action.op = "Deliver" => IsKey(action.arg)
    /\ action.op = "Respawn" => TableOK(action.arg.moved)

TodoOK == \E S : todo \in Seq(S) /\ \A action \in S : OpOK(action)

TasksOK ==
    /\ spawned \in Nat
    /\ DOMAIN tasks \subseteq 1 .. spawned
    /\ \A t \in DOMAIN tasks : /\ DOMAIN tasks[t] = {"key", "socket", "at", "stop"}
                               /\ Serves(tasks[t].socket, tasks[t].key)

SealedOK == \A reply \in sealed :
    reply.socket \in DOMAIN sockets /\ sockets[reply.socket].opened_for = reply.conversation

SocketsOK ==
    \E S : /\ sockets \in Seq(S)
           /\ \A socket \in S : DOMAIN socket = {"opened_for", "waiting"}

RoutesInv ==
    /\ EngineOK
    /\ SocketsOK
    /\ TableOK(routes)
    /\ TasksOK
    /\ TodoOK
    /\ SealedOK

\* The sockets that exist go on to exist, for the same conversations.
SocketsStay ==
    /\ DOMAIN sockets \subseteq DOMAIN sockets'
    /\ \A i \in DOMAIN sockets : sockets'[i].opened_for = sockets[i].opened_for
-----------------------------------------------------------------------------
\* What served a key serves it after a step that keeps the sockets.
LEMMA ServesStays ==
    ASSUME SocketsStay, NEW socket, NEW key, Serves(socket, key)
    PROVE  Serves(socket, key)'
BY DEF SocketsStay, Serves

\* So does a whole table.
LEMMA TableStays ==
    ASSUME SocketsStay, NEW table, TableOK(table)
    PROVE  /\ IsFiniteSet(DOMAIN table)
           /\ \A key \in DOMAIN table : IsKey(key) /\ Serves(table[key], key)'
BY ServesStays DEF TableOK

\* An action waiting to be executed stays meaningful.
LEMMA OpStays ==
    ASSUME SocketsStay, NEW action, OpOK(action)
    PROVE  OpOK(action)'
BY TableStays DEF OpOK, TableOK, IsKey, Key

\* Steps that leave the table, the tasks or the sealed replies alone.
LEMMA RoutesStay ==
    ASSUME SocketsStay, TableOK(routes), UNCHANGED routes
    PROVE  TableOK(routes)'
BY TableStays DEF TableOK, IsKey, Key

LEMMA TasksStay ==
    ASSUME SocketsStay, TasksOK, UNCHANGED <<tasks, spawned>>
    PROVE  TasksOK'
BY ServesStays DEF TasksOK

LEMMA SealedStays ==
    ASSUME SocketsStay, SealedOK, UNCHANGED sealed
    PROVE  SealedOK'
BY DEF SealedOK, SocketsStay

LEMMA SocketsUnchanged ==
    ASSUME SocketsOK, UNCHANGED sockets
    PROVE  SocketsOK' /\ SocketsStay
BY DEF SocketsOK, SocketsStay
-----------------------------------------------------------------------------
\* The list of actions: what is taken from its head, and what is put there.
LEMMA TodoStays ==
    ASSUME SocketsStay, TodoOK, UNCHANGED todo
    PROVE  TodoOK'
BY OpStays DEF TodoOK

\* The action at the head is done.
LEMMA TodoTail ==
    ASSUME SocketsStay, TodoOK, todo # <<>>, todo' = Tail(todo)
    PROVE  TodoOK'
<1>1. PICK S : todo \in Seq(S) /\ \A action \in S : OpOK(action)
  BY DEF TodoOK
<1>2. todo' \in Seq(S)
  BY <1>1
<1> QED BY <1>1, <1>2, OpStays DEF TodoOK

\* A new list from the engine.
LEMMA TodoSet ==
    ASSUME NEW S, NEW front \in Seq(S), \A action \in S : OpOK(action)', todo' = front
    PROVE  TodoOK'
BY DEF TodoOK

\* An action is replaced by its parts.
LEMMA TodoPush ==
    ASSUME SocketsStay, TodoOK, todo # <<>>,
           NEW T, NEW front \in Seq(T), \A action \in T : OpOK(action)',
           todo' = front \o Tail(todo)
    PROVE  TodoOK'
<1>1. PICK S : todo \in Seq(S) /\ \A action \in S : OpOK(action)
  BY DEF TodoOK
<1>2. Tail(todo) \in Seq(S \cup T) /\ front \in Seq(S \cup T)
  BY <1>1
<1>3. todo' \in Seq(S \cup T)
  BY <1>2
<1>4. \A action \in S \cup T : OpOK(action)'
  BY <1>1, OpStays
<1> QED BY <1>3, <1>4 DEF TodoOK

\* The same with one part.
LEMMA TodoPushOne ==
    ASSUME SocketsStay, TodoOK, todo # <<>>, NEW action, OpOK(action)',
           todo' = <<action>> \o Tail(todo)
    PROVE  TodoOK'
<1>1. <<action>> \in Seq({action})
  OBVIOUS
<1>2. \A one \in {action} : OpOK(one)'
  OBVIOUS
<1> DEFINE front == <<action>>
           T == {action}
<1>3. front \in Seq(T) /\ (\A one \in T : OpOK(one)') /\ todo' = front \o Tail(todo)
  BY <1>1, <1>2
<1> HIDE DEF front, T
<1> QED BY <1>3, TodoPush

\* The action at the head of the list.
LEMMA HeadOK ==
    ASSUME TodoOK, todo # <<>>
    PROVE  OpOK(Head(todo))
BY DEF TodoOK

\* An order of a finite set is a sequence over it.
LEMMA OrderIsSequence ==
    ASSUME NEW S, IsFiniteSet(S), NEW order \in SetToSeqs(S)
    PROVE  order \in Seq(S)
<1>1. Cardinality(S) \in Nat
  BY FS_CardinalityType
<1>2. order \in [1 .. Cardinality(S) -> S]
  BY DEF SetToSeqs
<1> QED BY <1>1, <1>2

\* A finite set has such an order, which is what Respawn walks.
LEMMA SomeOrder ==
    ASSUME NEW S, IsFiniteSet(S)
    PROVE  SetToSeq(S) \in [1 .. Cardinality(S) -> S] /\ Cardinality(S) \in Nat
<1>1. Cardinality(S) \in Nat /\ ExistsBijection(1 .. Cardinality(S), S)
  BY FS_CardinalityType
<1>2. \E f \in [1 .. Cardinality(S) -> S] : IsInjective(f)
  BY <1>1 DEF ExistsBijection, Bijection, Injection
<1> QED BY <1>1, <1>2 DEF SetToSeq

\* A function has finitely many values on a finite set.
LEMMA FiniteImage ==
    ASSUME NEW S, IsFiniteSet(S), NEW f
    PROVE  IsFiniteSet({f[x] : x \in S})
<1> DEFINE T == {f[x] : x \in S}
           g == [x \in S |-> f[x]]
<1>1. g \in Surjection(S, T)
  BY DEF Surjection
<1> QED BY <1>1, FS_Surjection
-----------------------------------------------------------------------------
\* The engine's steps keep its own part.
LEMMA EngineEvents ==
    ASSUME EngineOK
    PROVE  /\ \A s : EstablishSession(s) => EngineOK'
           /\ \A old, s : ResumeSession(old, s) => EngineOK'
           /\ \A s, id : BindConversation(s, id) => EngineOK'
           /\ \A s : OpenConversation(s) => EngineOK'
           /\ \A ids, idle, forgotten :
                  idle \subseteq DOMAIN live /\ ExpireSessions(ids, idle, forgotten) => EngineOK'
<1>1. ASSUME NEW s, EstablishSession(s) PROVE EngineOK'
  BY <1>1 DEF EngineOK, EstablishSession, NewId, Put
<1>2. ASSUME NEW old, NEW s, ResumeSession(old, s) PROVE EngineOK'
  BY <1>2 DEF EngineOK, ResumeSession, NewId, Put, Without, HeldBy
<1>3. ASSUME NEW s, NEW id, BindConversation(s, id) PROVE EngineOK'
  BY <1>3 DEF EngineOK, BindConversation
<1>4. ASSUME NEW s, OpenConversation(s) PROVE EngineOK'
  <2>1. opened' \in Nat /\ opened' \in 1 .. opened' /\ 1 .. opened \subseteq 1 .. opened'
    BY <1>4 DEF EngineOK, OpenConversation
  <2> QED BY <1>4, <2>1 DEF EngineOK, OpenConversation
<1>5. ASSUME NEW ids, NEW idle, NEW forgotten, idle \subseteq DOMAIN live,
             ExpireSessions(ids, idle, forgotten)
      PROVE  EngineOK'
  <2>1. \A s \in DOMAIN live : /\ Closed(ids)[s].held \subseteq live[s].held
                               /\ DOMAIN Closed(ids)[s] = {"held", "bound"}
    BY DEF Closed
  <2>2. DOMAIN Closed(ids) = DOMAIN live
    BY DEF Closed
  <2> QED BY <1>5, <2>1, <2>2 DEF EngineOK, ExpireSessions, Without
<1> QED BY <1>1, <1>2, <1>3, <1>4, <1>5, Zenon

\* The actions of an expiry are a sequence of Unroute and Release.
LEMMA ExpirySequence ==
    ASSUME EngineOK,
           NEW ids \in SUBSET UNION {live[s].held : s \in DOMAIN live},
           NEW forgotten \in SUBSET DOMAIN kept,
           NEW first \in SetToSeqs(ClosedRoutes(ids)),
           NEW second \in SetToSeqs(ForgottenSessions(forgotten))
    PROVE  \E S : first \o second \in Seq(S) /\ \A action \in S : action.op \in {"Unroute", "Release"}
<1> DEFINE row == [s \in DOMAIN live |-> {Op("Unroute", Key(s, id)) : id \in ids \cap live[s].held}]
           closed == ClosedRoutes(ids)
           released == ForgottenSessions(forgotten)
<1>1. IsFiniteSet(DOMAIN live) /\ IsFiniteSet(forgotten)
  <2>1. DOMAIN live \subseteq SessionIds /\ forgotten \subseteq SessionIds
    BY DEF EngineOK
  <2> QED BY <2>1, FS_Subset, RoutesAssumption
<1>2. IsFiniteSet(ids)
  <2>1. ids \subseteq 1 .. opened
    BY DEF EngineOK
  <2>2. opened \in Int /\ 1 \in Int
    BY DEF EngineOK
  <2>3. IsFiniteSet(1 .. opened)
    BY <2>2, FS_Interval
  <2> QED BY <2>1, <2>3, FS_Subset, Zenon
<1>3. IsFiniteSet(closed)
  <2>1. ASSUME NEW s \in DOMAIN live PROVE IsFiniteSet(row[s])
    <3> DEFINE closing == [id \in ids |-> Op("Unroute", Key(s, id))]
               closable == ids \cap live[s].held
    <3>1. row[s] = {closing[id] : id \in closable}
      OBVIOUS
    <3>2. IsFiniteSet(closable)
      BY <1>2, FS_Subset
    <3> HIDE DEF closing, row, closable
    <3> QED BY <3>1, <3>2, FiniteImage
  <2>2. closed = UNION {row[s] : s \in DOMAIN live}
    <3>1. \A s \in DOMAIN live : row[s] = {Op("Unroute", Key(s, id)) : id \in ids \cap live[s].held}
      OBVIOUS
    <3> HIDE DEF row
    <3> QED BY <3>1 DEF ClosedRoutes
  <2> HIDE DEF row, closed
  <2> DEFINE rows == {row[s] : s \in DOMAIN live}
  <2>3. IsFiniteSet(rows)
    BY <1>1, FiniteImage
  <2>4. \A r \in rows : IsFiniteSet(r)
    BY <2>1
  <2> HIDE DEF rows
  <2>5. IsFiniteSet(UNION rows)
    BY <2>3, <2>4, FS_UNION
  <2> QED BY <2>2, <2>5 DEF rows
<1>4. IsFiniteSet(released)
  <2> DEFINE releasing == [s \in forgotten |-> Op("Release", s)]
  <2>1. released = {releasing[s] : s \in forgotten}
    BY DEF ForgottenSessions
  <2> HIDE DEF releasing, released
  <2> QED BY <1>1, <2>1, FiniteImage
<1>5. \A action \in closed \cup released : action.op \in {"Unroute", "Release"}
  BY DEF Op, ClosedRoutes, ForgottenSessions
<1> HIDE DEF closed, released
<1>6. first \in Seq(closed) /\ second \in Seq(released)
  BY <1>3, <1>4, OrderIsSequence DEF closed, released
<1>7. first \o second \in Seq(closed \cup released)
  <2>1. first \in Seq(closed \cup released) /\ second \in Seq(closed \cup released)
    BY <1>6
  <2> QED BY <2>1
<1> QED BY <1>5, <1>7
-----------------------------------------------------------------------------
\* An event for the engine: only the list of actions is new.
LEMMA HandlesStep ==
    ASSUME RoutesInv, NEW actions, Handles(actions), EngineOK',
           \E S : actions \in Seq(S) /\ \A action \in S : OpOK(action)'
    PROVE  RoutesInv'
<1>1. SocketsOK' /\ SocketsStay
  BY SocketsUnchanged DEF RoutesInv, Handles
<1>2. TodoOK'
  BY TodoSet DEF Handles
<1>3. TableOK(routes)' /\ TasksOK' /\ SealedOK'
  BY <1>1, RoutesStay, TasksStay, SealedStays DEF RoutesInv, Handles, tables
<1> QED BY <1>1, <1>2, <1>3 DEF RoutesInv

\* A frame or the timer, and the actions the engine answers with.
LEMMA HandleEventStep ==
    ASSUME RoutesInv, HandleEvent
    PROVE  RoutesInv'
<1> USE DEF RoutesInv
<1>0. ASSUME NEW action, action.op \notin {"Deliver", "Respawn"} PROVE OpOK(action)'
  BY <1>0 DEF OpOK
<1>1. \E S : <<>> \in Seq(S) /\ \A action \in S : OpOK(action)'
  <2> DEFINE none == {}
  <2>1. <<>> \in Seq(none) /\ \A action \in none : OpOK(action)'
    OBVIOUS
  <2> HIDE DEF none
  <2> QED BY <2>1
<1>2. ASSUME NEW action, OpOK(action)'
      PROVE  \E S : <<action>> \in Seq(S) /\ \A one \in S : OpOK(one)'
  <2> DEFINE front == <<action>>
             T == {action}
  <2>1. front \in Seq(T) /\ \A one \in T : OpOK(one)'
    BY <1>2
  <2> HIDE DEF T
  <2> QED BY <2>1
<1>3. ASSUME NEW s, NEW id PROVE OpOK(Op("Deliver", Key(s, id)))'
  BY DEF OpOK, Op, IsKey, Key
<1>4. CASE HandleFinish
  BY <1>1, <1>4, EngineEvents, HandlesStep, Zenon DEF HandleFinish
<1>5. ASSUME NEW old, HandleResumingFinish(old) PROVE RoutesInv'
  <2>1. PICK action : action = Op("Migrate", <<old, established + 1>>)
    OBVIOUS
  <2>2. OpOK(action)'
    BY <2>1 DEF Op, OpOK
  <2>3. EngineOK'
    BY <1>5, EngineEvents DEF HandleResumingFinish
  <2>4. Handles(<<action>>)
    BY <1>5, <2>1 DEF HandleResumingFinish
  <2> QED BY <1>2, <2>2, <2>3, <2>4, HandlesStep
<1>6. ASSUME NEW s, NEW id, HandleResumeConversation(s, id) PROVE RoutesInv'
  BY <1>1, <1>6, EngineEvents, HandlesStep, Zenon DEF HandleResumeConversation
<1>7. ASSUME NEW s, HandleNewData(s) PROVE RoutesInv'
  BY <1>2, <1>3, <1>7, EngineEvents, HandlesStep, Zenon DEF HandleNewData
<1>8. ASSUME NEW s, NEW id, HandleData(s, id) PROVE RoutesInv'
  <2>1. EngineOK'
    BY <1>8 DEF HandleData, registryVars, EngineOK
  <2> QED BY <1>2, <1>3, <1>8, <2>1, HandlesStep, Zenon DEF HandleData
<1>9. ASSUME NEW ids \in SUBSET UNION {live[s].held : s \in DOMAIN live},
             NEW idle \in SUBSET DOMAIN live, NEW forgotten \in SUBSET DOMAIN kept,
             HandleTimer(ids, idle, forgotten)
      PROVE  RoutesInv'
  <2>1. PICK first \in SetToSeqs(ClosedRoutes(ids)),
             second \in SetToSeqs(ForgottenSessions(forgotten)) : Handles(first \o second)
    BY <1>9, Zenon DEF HandleTimer
  <2>2. EngineOK'
    BY <1>9, EngineEvents DEF HandleTimer
  <2>3. PICK S : first \o second \in Seq(S) /\ \A action \in S : action.op \in {"Unroute", "Release"}
    BY ExpirySequence
  <2>4. \A action \in S : OpOK(action)'
    BY <1>0, <2>3
  <2> QED BY <2>1, <2>2, <2>3, <2>4, HandlesStep, Zenon
<1>10. CASE HandleFails
  <2>1. SocketsOK' /\ SocketsStay
    BY <1>10, SocketsUnchanged DEF HandleFails
  <2>2. EngineOK'
    BY <1>10 DEF HandleFails, registryVars, EngineOK
  <2>3. TableOK(routes)' /\ TasksOK' /\ SealedOK' /\ TodoOK'
    BY <1>10, <2>1, RoutesStay, TasksStay, SealedStays, TodoStays DEF HandleFails, tables
  <2> QED BY <2>1, <2>2, <2>3
<1> QED BY <1>4, <1>5, <1>6, <1>7, <1>8, <1>9, <1>10, Zenon DEF HandleEvent
-----------------------------------------------------------------------------
\* Steps of execute_server_actions and of the receivers leave the engine's
\* sessions alone.
LEMMA EngineStays ==
    ASSUME EngineOK, UNCHANGED registryVars
    PROVE  EngineOK'
BY DEF EngineOK, registryVars

\* Opening a socket.
LEMMA AppendKeeps ==
    ASSUME SocketsOK, NEW socket, DOMAIN socket = {"opened_for", "waiting"},
           sockets' = Append(sockets, socket)
    PROVE  /\ SocketsOK' /\ SocketsStay
           /\ Len(sockets) + 1 \in DOMAIN sockets'
           /\ sockets'[Len(sockets) + 1] = socket
<1>1. PICK S : /\ sockets \in Seq(S)
               /\ \A one \in S : DOMAIN one = {"opened_for", "waiting"}
  BY DEF SocketsOK
<1> DEFINE T == S \cup {socket}
<1>2. sockets' \in Seq(T) /\ \A one \in T : DOMAIN one = {"opened_for", "waiting"}
  <2>1. sockets \in Seq(T) /\ socket \in T
    BY <1>1
  <2>2. \A one \in T : DOMAIN one = {"opened_for", "waiting"}
    BY <1>1
  <2> HIDE DEF T
  <2> QED BY <2>1, <2>2
<1> HIDE DEF T
<1>3. SocketsOK'
  BY <1>2 DEF SocketsOK
<1> QED BY <1>1, <1>3 DEF SocketsStay

\* A new route: its socket, its table entry and its task serve the same key.
LEMMA RouteStep ==
    ASSUME RoutesInv, NEW key, IsKey(key), Route(key)
    PROVE  SocketsOK' /\ SocketsStay /\ TableOK(routes)' /\ TasksOK'
<1>1. PICK socket : socket = Len(sockets) + 1
  OBVIOUS
<1>2. SocketsOK' /\ SocketsStay /\ Serves(socket, key)'
  <2>1. PICK new : new = [opened_for |-> key[2], waiting |-> 0]
    BY Zenon
  <2>2. DOMAIN new = {"opened_for", "waiting"} /\ new.opened_for = key[2]
    BY <2>1
  <2>3. sockets' = Append(sockets, new)
    BY <2>1 DEF Route
  <2>4. /\ SocketsOK' /\ SocketsStay
        /\ Len(sockets) + 1 \in DOMAIN sockets' /\ sockets'[Len(sockets) + 1] = new
    BY <2>2, <2>3, AppendKeeps DEF RoutesInv
  <2> QED BY <1>1, <2>2, <2>4 DEF Serves
<1>3. TableOK(routes)'
  <2>1. routes' = Put(routes, key, socket)
    BY <1>1 DEF Route
  <2>2. IsFiniteSet(DOMAIN routes')
    BY <2>1, FS_AddElement DEF Put, RoutesInv, TableOK
  <2>3. ASSUME NEW k \in DOMAIN routes' PROVE IsKey(k) /\ Serves(routes[k], k)'
    <3>1. CASE k = key
      BY <1>2, <2>1, <3>1 DEF Put, Serves
    <3>2. CASE k # key
      <4>1. k \in DOMAIN routes /\ routes'[k] = routes[k]
        BY <2>1, <3>2 DEF Put
      <4> QED BY <1>2, <4>1 DEF RoutesInv, TableOK, Serves, SocketsStay
    <3> QED BY <3>1, <3>2
  <2> QED BY <2>2, <2>3 DEF TableOK, IsKey, Key
<1>4. TasksOK'
  <2>1. /\ spawned' = spawned + 1
        /\ tasks' = Put(tasks, spawned', NewReceiver(key, socket))
    BY <1>1 DEF Route
  <2>2. spawned' \in Nat /\ DOMAIN tasks' \subseteq 1 .. spawned'
    BY <2>1 DEF Put, RoutesInv, TasksOK
  <2>3. ASSUME NEW t \in DOMAIN tasks'
        PROVE  /\ DOMAIN tasks'[t] = {"key", "socket", "at", "stop"}
               /\ Serves(tasks[t].socket, tasks[t].key)'
    <3>1. CASE t = spawned'
      <4>1. tasks'[t] = NewReceiver(key, socket)
        BY <2>1, <3>1 DEF Put
      <4> QED BY <1>2, <4>1 DEF NewReceiver, Serves
    <3>2. CASE t # spawned'
      <4>1. t \in DOMAIN tasks /\ tasks'[t] = tasks[t]
        BY <2>1, <3>2 DEF Put
      <4> QED BY <1>2, <4>1 DEF RoutesInv, TasksOK, Serves, SocketsStay
    <3> QED BY <3>1, <3>2
  <2> QED BY <2>2, <2>3 DEF TasksOK
<1> QED BY <1>2, <1>3, <1>4

\* Stopping tasks, by abort or by notification, leaves their key and socket.
StopsOnly(ts) ==
    /\ DOMAIN ts = DOMAIN tasks
    /\ \A t \in DOMAIN tasks : /\ DOMAIN ts[t] = DOMAIN tasks[t]
                               /\ ts[t].key = tasks[t].key
                               /\ ts[t].socket = tasks[t].socket

\* Abort and notification do no more than stop.
LEMMA AbortStops ==
    ASSUME TasksOK, NEW ts
    PROVE  StopsOnly(Aborted(ts)) /\ StopsOnly(Notified(tasks)) /\ StopsOnly(Notified(Aborted(ts)))
<1>1. StopsOnly(Aborted(ts))
  BY DEF StopsOnly, Aborted, TasksOK
<1>2. StopsOnly(Notified(tasks))
  BY DEF StopsOnly, Notified, TasksOK
<1>3. ASSUME NEW us, StopsOnly(us) PROVE StopsOnly(Notified(us))
  BY <1>3 DEF StopsOnly, Notified, TasksOK
<1> QED BY <1>1, <1>2, <1>3

\* So the tasks go on to serve their keys.
LEMMA TasksStopped ==
    ASSUME TasksOK, SocketsStay, UNCHANGED spawned, StopsOnly(tasks')
    PROVE  TasksOK'
BY DEF TasksOK, StopsOnly, Serves, SocketsStay

\* A task ends.
LEMMA TasksEnd ==
    ASSUME TasksOK, SocketsStay, UNCHANGED spawned, NEW t, End(t)
    PROVE  TasksOK'
BY DEF TasksOK, End, Without, Serves, SocketsStay

\* A task goes on.
LEMMA TasksContinue ==
    ASSUME TasksOK, SocketsStay, UNCHANGED spawned, NEW t \in DOMAIN tasks, NEW at, Continue(t, at)
    PROVE  TasksOK'
<1>1. StopsOnly(tasks')
  BY DEF TasksOK, Continue, StopsOnly
<1> QED BY <1>1, TasksStopped

-----------------------------------------------------------------------------
\* execute_server_actions, for the parts that leave the sockets alone.
LEMMA QuietStep ==
    ASSUME RoutesInv, UNCHANGED <<registryVars, sockets, sealed>>,
           TableOK(routes)', TasksOK', TodoOK'
    PROVE  RoutesInv'
<1>1. SocketsOK' /\ SocketsStay
  BY SocketsUnchanged DEF RoutesInv
<1>2. EngineOK' /\ SealedOK'
  BY <1>1, EngineStays, SealedStays DEF RoutesInv
<1> QED BY <1>1, <1>2 DEF RoutesInv

\* ensure_upstream_route opens a socket for a key that has none.
LEMMA EnsureStep ==
    ASSUME RoutesInv, EnsureUpstreamRoute
    PROVE  RoutesInv'
<1>1. todo # <<>> /\ IsKey(Argument)
  BY HeadOK DEF EnsureUpstreamRoute, Doing, Argument, OpOK, RoutesInv
<1>2. SocketsOK' /\ SocketsStay /\ TableOK(routes)' /\ TasksOK'
  <2>1. CASE Argument \in DOMAIN routes
    <3>1. UNCHANGED <<routes, tasks, spawned, sockets>>
      BY <2>1 DEF EnsureUpstreamRoute, tables
    <3>2. SocketsOK' /\ SocketsStay
      BY <3>1, SocketsUnchanged DEF RoutesInv
    <3> QED BY <3>1, <3>2, RoutesStay, TasksStay DEF RoutesInv
  <2>2. CASE Argument \notin DOMAIN routes
    <3>1. Route(Argument)
      BY <2>2 DEF EnsureUpstreamRoute
    <3> QED BY <1>1, <3>1, RouteStep
  <2> QED BY <2>1, <2>2
<1>3. TodoOK'
  <2>1. PICK action : action = Op("Send", Argument)
    OBVIOUS
  <2>2. OpOK(action)'
    BY <2>1 DEF Op, OpOK
  <2>3. todo' = <<action>> \o Tail(todo)
    BY <2>1 DEF EnsureUpstreamRoute
  <2> QED BY <1>1, <1>2, <2>2, <2>3, TodoPushOne DEF RoutesInv
<1>4. EngineOK' /\ SealedOK'
  BY <1>2, EngineStays, SealedStays DEF RoutesInv, EnsureUpstreamRoute, engineSide
<1> QED BY <1>2, <1>3, <1>4 DEF RoutesInv

\* The datagram is sent, or the service fails.
LEMMA SendStep ==
    ASSUME RoutesInv, SendUpstream \/ DeliveryFails
    PROVE  RoutesInv'
<1>1. UNCHANGED <<registryVars, sockets, sealed, routes, tasks, spawned>>
  BY DEF SendUpstream, DeliveryFails, engineSide, tables
<1>2. SocketsOK' /\ SocketsStay
  BY <1>1, SocketsUnchanged DEF RoutesInv
<1>3. TableOK(routes)' /\ TasksOK'
  BY <1>1, <1>2, RoutesStay, TasksStay DEF RoutesInv
<1>4. TodoOK'
  <2>1. CASE SendUpstream
    BY <1>2, <2>1, TodoTail DEF SendUpstream, Doing, Done, RoutesInv
  <2>2. CASE DeliveryFails
    <3> DEFINE none == {}
    <3>1. <<>> \in Seq(none) /\ \A action \in none : OpOK(action)'
      OBVIOUS
    <3> HIDE DEF none
    <3> QED BY <2>2, <3>1, TodoSet, Zenon DEF DeliveryFails
  <2> QED BY <2>1, <2>2
<1> QED BY <1>1, <1>3, <1>4, QuietStep

\* A migration gives the sockets of the old session's keys to the new keys of
\* the same conversations, and hands the old table to Respawn.
LEMMA MigrateStep ==
    ASSUME RoutesInv, Migrate
    PROVE  RoutesInv'
<1>1. PICK old, new : old = Argument[1] /\ new = Argument[2]
  OBVIOUS
<1> DEFINE from == RoutesOf(old)
           moved == {Key(new, key[2]) : key \in from}
<1>2. /\ todo # <<>>
      /\ todo' = <<Op("Respawn", [pair |-> Argument, moved |-> [key \in from |-> routes[key]]])>>
                   \o Tail(todo)
      /\ routes' = [key \in (DOMAIN routes \ from) \cup moved |->
                       IF key \in moved THEN routes[Key(old, key[2])] ELSE routes[key]]
      /\ UNCHANGED <<registryVars, sockets, sealed, tasks, spawned>>
  BY <1>1 DEF Migrate, Doing, engineSide
<1>3. SocketsOK' /\ SocketsStay
  BY <1>2, SocketsUnchanged DEF RoutesInv
<1>4. from \subseteq DOMAIN routes /\ \A key \in from : key = Key(old, key[2])
  BY DEF RoutesOf, RoutesInv, TableOK, IsKey, Key
<1>5. IsFiniteSet(from)
  BY <1>4, FS_Subset DEF RoutesInv, TableOK
<1>6. TableOK(routes)'
  <2>1. IsFiniteSet(moved)
    <3> DEFINE renamed == [key \in from |-> Key(new, key[2])]
    <3>1. moved = {renamed[key] : key \in from}
      OBVIOUS
    <3> HIDE DEF renamed, moved, from
    <3> QED BY <1>5, <3>1, FiniteImage
  <2>2. IsFiniteSet(DOMAIN routes')
    <3>1. IsFiniteSet(DOMAIN routes \ from)
      BY FS_Subset DEF RoutesInv, TableOK
    <3>2. DOMAIN routes' = (DOMAIN routes \ from) \cup moved
      BY <1>2
    <3> HIDE DEF moved, from
    <3> QED BY <2>1, <3>1, <3>2, FS_Union, Zenon
  <2>3. ASSUME NEW k \in DOMAIN routes' PROVE IsKey(k) /\ Serves(routes[k], k)'
    <3>1. CASE k \in moved
      <4>1. PICK key \in from : k = Key(new, key[2])
        BY <3>1
      <4>2. routes'[k] = routes[key] /\ k[2] = key[2] /\ IsKey(k)
        BY <1>2, <1>4, <3>1, <4>1 DEF Key, IsKey
      <4>3. key \in DOMAIN routes
        BY <1>4
      <4> QED BY <1>3, <4>2, <4>3 DEF RoutesInv, TableOK, Serves, SocketsStay
    <3>2. CASE k \notin moved
      <4>1. k \in DOMAIN routes /\ routes'[k] = routes[k]
        BY <1>2, <3>2
      <4> QED BY <1>3, <4>1 DEF RoutesInv, TableOK, Serves, SocketsStay
    <3> QED BY <3>1, <3>2
  <2> QED BY <2>2, <2>3 DEF TableOK, IsKey, Key
<1>7. TodoOK'
  <2>1. PICK table : table = [key \in from |-> routes[key]]
    BY Zenon
  <2>2. PICK action : action = Op("Respawn", [pair |-> Argument, moved |-> table])
    OBVIOUS
  <2>3. TableOK(table)
    BY <1>4, <1>5, <2>1 DEF RoutesInv, TableOK
  <2>4. action.op = "Respawn" /\ action.arg.moved = table
    BY <2>2 DEF Op
  <2>5. OpOK(action)
    BY <2>3, <2>4 DEF OpOK
  <2>6. OpOK(action)'
    BY <1>3, <2>5, OpStays
  <2>7. todo' = <<action>> \o Tail(todo)
    BY <1>2, <2>1, <2>2
  <2> QED BY <1>2, <1>3, <2>6, <2>7, TodoPushOne DEF RoutesInv
<1>8. TasksOK'
  BY <1>2, <1>3, TasksStay DEF RoutesInv
<1> QED BY <1>2, <1>6, <1>7, <1>8, QuietStep

\* Each new task gets the socket of the key it replaces.
LEMMA RespawnStep ==
    ASSUME RoutesInv, Respawn
    PROVE  RoutesInv'
<1>1. PICK moved, new : moved = Argument.moved /\ new = Argument.pair[2]
  OBVIOUS
<1>2. PICK order : order = SetToSeq(DOMAIN moved)
  OBVIOUS
<1> DEFINE Socket(i) == MovedSocket(moved, order, i)
           NewTask(i) == NewReceiver(Key(new, order[i][2]), Socket(i))
           aborted == Aborted(Replaced(moved))
<1>3. /\ todo # <<>> /\ todo' = Tail(todo)
      /\ spawned' = spawned + Len(order)
      /\ tasks' = [t \in DOMAIN tasks \cup (spawned + 1 .. spawned') |->
                      IF t <= spawned THEN aborted[t] ELSE NewTask(t - spawned)]
  BY <1>1, <1>2 DEF Respawn, Doing, Done
<1>0. UNCHANGED <<registryVars, sockets, sealed, routes>>
  BY DEF Respawn, engineSide
<1>4. SocketsOK' /\ SocketsStay
  BY <1>0, SocketsUnchanged DEF RoutesInv
<1>5. TableOK(moved)
  BY <1>1, <1>3, HeadOK, Zenon DEF RoutesInv, Respawn, Doing, Argument, OpOK
<1>6. /\ order \in [1 .. Cardinality(DOMAIN moved) -> DOMAIN moved]
      /\ Cardinality(DOMAIN moved) \in Nat
  BY <1>2, <1>5, SomeOrder DEF TableOK
<1>7. Len(order) \in Nat /\ \A i \in 1 .. Len(order) : order[i] \in DOMAIN moved
  BY <1>6
<1>8. spawned \in Nat /\ spawned' \in Nat /\ DOMAIN tasks \subseteq 1 .. spawned
  BY <1>3, <1>7 DEF RoutesInv, TasksOK
<1>9. TasksOK'
  <2>1. DOMAIN tasks' \subseteq 1 .. spawned'
    BY <1>3, <1>7, <1>8
  <2>2. ASSUME NEW t \in DOMAIN tasks'
        PROVE  /\ DOMAIN tasks'[t] = {"key", "socket", "at", "stop"}
               /\ Serves(tasks[t].socket, tasks[t].key)'
    <3>1. CASE t <= spawned
      <4>1. t \in DOMAIN tasks /\ tasks'[t] = aborted[t]
        BY <1>3, <1>7, <1>8, <3>1
      <4>2. StopsOnly(aborted)
        BY AbortStops DEF RoutesInv
      <4> QED BY <1>4, <4>1, <4>2 DEF RoutesInv, TasksOK, StopsOnly, Serves, SocketsStay
    <3>2. CASE ~(t <= spawned)
      <4>1. PICK i \in 1 .. Len(order) : i = t - spawned
        BY <1>3, <1>7, <1>8, <3>2
      <4>2. tasks'[t] = NewTask(i)
        BY <1>3, <3>2, <4>1
      <4>3. Serves(moved[order[i]], order[i])
        BY <1>5, <1>7 DEF TableOK
      <4>4. /\ DOMAIN tasks'[t] = {"key", "socket", "at", "stop"}
            /\ tasks'[t].socket = moved[order[i]] /\ tasks'[t].key[2] = order[i][2]
        BY <4>2 DEF NewReceiver, MovedSocket, Key
      <4> QED BY <1>4, <4>3, <4>4 DEF Serves, SocketsStay
    <3> QED BY <3>1, <3>2
  <2> QED BY <1>8, <2>1, <2>2 DEF TasksOK
<1>10. TodoOK' /\ TableOK(routes)'
  BY <1>0, <1>3, <1>4, TodoTail, RoutesStay DEF RoutesInv
<1> QED BY <1>0, <1>9, <1>10, QuietStep

\* The routes of a forgotten session are removed one by one.
LEMMA ReleaseStep ==
    ASSUME RoutesInv, ReleaseSession
    PROVE  RoutesInv'
<1> DEFINE unrouted == {Op("Unroute", key) : key \in RoutesOf(Argument)}
<1>1. /\ todo # <<>>
      /\ UNCHANGED <<registryVars, sockets, sealed, routes, tasks, spawned>>
  BY DEF ReleaseSession, Doing, engineSide, tables
<1>2. SocketsOK' /\ SocketsStay
  BY <1>1, SocketsUnchanged DEF RoutesInv
<1>3. PICK order \in SetToSeqs(unrouted) : todo' = order \o Tail(todo)
  BY Zenon DEF ReleaseSession
<1>4. IsFiniteSet(unrouted)
  <2> DEFINE keys == RoutesOf(Argument)
             unrouting == [key \in keys |-> Op("Unroute", key)]
  <2>1. unrouted = {unrouting[key] : key \in keys}
    OBVIOUS
  <2>2. IsFiniteSet(keys)
    BY FS_Subset DEF RoutesOf, RoutesInv, TableOK
  <2> HIDE DEF keys, unrouting, unrouted
  <2> QED BY <2>1, <2>2, FiniteImage
<1>5. \A action \in unrouted : OpOK(action)'
  BY DEF Op, OpOK
<1>6. PICK T : T = unrouted
  OBVIOUS
<1> HIDE DEF unrouted
<1>7. order \in Seq(T) /\ \A action \in T : OpOK(action)'
  BY <1>3, <1>4, <1>5, <1>6, OrderIsSequence
<1>8. TodoOK'
  BY <1>1, <1>2, <1>3, <1>7, TodoPush, Zenon DEF RoutesInv
<1>9. TableOK(routes)' /\ TasksOK'
  BY <1>1, <1>2, RoutesStay, TasksStay DEF RoutesInv
<1> QED BY <1>1, <1>8, <1>9, QuietStep

\* A route leaves the table.
LEMMA RemoveStep ==
    ASSUME RoutesInv, RemoveRoute
    PROVE  RoutesInv'
<1>1. /\ todo # <<>>
      /\ UNCHANGED <<registryVars, sockets, sealed, tasks, spawned>>
  BY DEF RemoveRoute, Doing, engineSide
<1>2. SocketsOK' /\ SocketsStay
  BY <1>1, SocketsUnchanged DEF RoutesInv
<1>3. TableOK(routes)'
  <2>1. /\ DOMAIN routes' \subseteq DOMAIN routes
        /\ \A key \in DOMAIN routes' : routes'[key] = routes[key]
    BY DEF RemoveRoute, Without
  <2>2. IsFiniteSet(DOMAIN routes')
    BY <2>1, FS_Subset DEF RoutesInv, TableOK
  <2> QED BY <1>2, <2>1, <2>2, TableStays DEF RoutesInv, TableOK, IsKey, Key
<1>4. TodoOK'
  <2>1. PICK action : action = Op("Abort", Argument)
    OBVIOUS
  <2>2. OpOK(action)'
    BY <2>1 DEF Op, OpOK
  <2>3. todo' = <<action>> \o Tail(todo)
    BY <2>1 DEF RemoveRoute
  <2> QED BY <1>1, <1>2, <2>2, <2>3, TodoPushOne DEF RoutesInv
<1>5. TasksOK'
  BY <1>1, <1>2, TasksStay DEF RoutesInv
<1> QED BY <1>1, <1>3, <1>4, <1>5, QuietStep

\* Steps that only stop tasks: an abort, the notification, the end of the loop.
LEMMA StopStep ==
    ASSUME RoutesInv, AbortReceiver \/ Shutdown \/ StopServing
    PROVE  RoutesInv'
<1>1. UNCHANGED <<registryVars, sockets, sealed, routes, spawned>>
  BY DEF AbortReceiver, Shutdown, StopServing, engineSide, tables
<1>2. SocketsOK' /\ SocketsStay
  BY <1>1, SocketsUnchanged DEF RoutesInv
<1>3. TodoOK'
  <2>1. CASE AbortReceiver
    BY <1>2, <2>1, TodoTail DEF AbortReceiver, Doing, Done, RoutesInv
  <2>2. CASE Shutdown \/ StopServing
    BY <1>2, <2>2, TodoStays DEF Shutdown, StopServing, RoutesInv
  <2> QED BY <2>1, <2>2
<1>4. StopsOnly(tasks')
  <2>1. StopsOnly(tasks)
    BY DEF StopsOnly
  <2> QED BY <2>1, AbortStops DEF AbortReceiver, Shutdown, StopServing, RoutesInv
<1>5. TasksOK' /\ TableOK(routes)'
  BY <1>1, <1>2, <1>4, TasksStopped, RoutesStay DEF RoutesInv
<1> QED BY <1>1, <1>3, <1>5, QuietStep

\* A datagram arrives in a socket or is taken from it: the socket is the same.
LEMMA WaitingKeeps ==
    ASSUME SocketsOK, NEW socket \in DOMAIN sockets, NEW n,
           sockets' = [sockets EXCEPT ![socket].waiting = n]
    PROVE  SocketsOK' /\ SocketsStay
<1>1. PICK S : /\ sockets \in Seq(S)
               /\ \A one \in S : DOMAIN one = {"opened_for", "waiting"}
  BY DEF SocketsOK
<1>2. PICK changed : changed = [sockets[socket] EXCEPT !.waiting = n]
  OBVIOUS
<1>3. sockets[socket] \in S
  BY <1>1
<1>4. /\ DOMAIN changed = {"opened_for", "waiting"}
      /\ changed.opened_for = sockets[socket].opened_for
  BY <1>1, <1>2, <1>3
<1>5. sockets' = [sockets EXCEPT ![socket] = changed]
  BY <1>2
<1> DEFINE T == S \cup {changed}
<1>6. sockets' \in Seq(T)
  BY <1>1, <1>5
<1>7. \A one \in T : DOMAIN one = {"opened_for", "waiting"}
  BY <1>1, <1>4
<1> HIDE DEF T
<1>8. SocketsOK'
  BY <1>6, <1>7 DEF SocketsOK
<1>9. SocketsStay
  BY <1>1, <1>4, <1>5 DEF SocketsStay
<1> QED BY <1>8, <1>9

\* A datagram from upstream.
LEMMA ReplyStep ==
    ASSUME RoutesInv, NEW socket \in Range(routes), Reply(socket)
    PROVE  RoutesInv'
<1>1. socket \in DOMAIN sockets
  BY DEF Range, RoutesInv, TableOK, Serves
<1>2. SocketsOK' /\ SocketsStay
  <2>1. PICK n : n = sockets[socket].waiting + 1
    OBVIOUS
  <2>2. sockets' = [sockets EXCEPT ![socket].waiting = n]
    BY <2>1 DEF Reply
  <2> QED BY <1>1, <2>2, WaitingKeeps, Zenon DEF RoutesInv
<1>3. UNCHANGED <<registryVars, todo, routes, tasks, spawned, sealed>>
  BY DEF Reply, tables
<1> QED BY <1>2, <1>3, EngineStays, RoutesStay, TasksStay, TodoStays, SealedStays DEF RoutesInv

\* The receiver seals for the key it was spawned with.
LEMMA ReceiverStep ==
    ASSUME RoutesInv, NEW t \in DOMAIN tasks, Receiver(t)
    PROVE  RoutesInv'
<1>1. UNCHANGED <<registryVars, todo, routes, spawned>>
  BY DEF Receiver, ReceiveDatagram, DropOversize, SealReply, EngineRefuses, ReceiveFails,
         HearShutdown, Cancelled, loop, tables
<1>2. SocketsOK' /\ SocketsStay
  <2>1. CASE ReceiveDatagram(t)
    <3>1. PICK socket, n : /\ socket = tasks[t].socket
                           /\ n = sockets[tasks[t].socket].waiting - 1
      OBVIOUS
    <3>2. socket \in DOMAIN sockets
      BY <3>1 DEF RoutesInv, TasksOK, Serves
    <3>3. sockets' = [sockets EXCEPT ![socket].waiting = n]
      BY <2>1, <3>1 DEF ReceiveDatagram
    <3> QED BY <3>2, <3>3, WaitingKeeps, Zenon DEF RoutesInv
  <2>2. CASE ~ReceiveDatagram(t)
    <3>1. UNCHANGED sockets
      BY <2>2 DEF Receiver, DropOversize, SealReply, EngineRefuses, ReceiveFails,
                  HearShutdown, Cancelled
    <3> QED BY <3>1, SocketsUnchanged DEF RoutesInv
  <2> QED BY <2>1, <2>2
<1>3. TasksOK'
  <2>1. End(t) \/ Continue(t, "engine") \/ Continue(t, "recv")
    BY DEF Receiver, ReceiveDatagram, DropOversize, SealReply, EngineRefuses, ReceiveFails,
           HearShutdown, Cancelled
  <2> QED BY <1>1, <1>2, <2>1, TasksEnd, TasksContinue DEF RoutesInv
<1>4. SealedOK'
  <2>1. CASE SealReply(t)
    <3>1. PICK reply : reply = [socket |-> tasks[t].socket, conversation |-> tasks[t].key[2]]
      BY Zenon
    <3>2. Serves(tasks[t].socket, tasks[t].key) /\ sealed' = sealed \cup {reply}
      BY <2>1, <3>1 DEF SealReply, RoutesInv, TasksOK
    <3> QED BY <1>2, <3>1, <3>2 DEF RoutesInv, SealedOK, Serves, SocketsStay
  <2>2. CASE ~SealReply(t)
    <3>1. UNCHANGED sealed
      BY <2>2 DEF Receiver, ReceiveDatagram, DropOversize, EngineRefuses, ReceiveFails,
                  HearShutdown, Cancelled
    <3> QED BY <1>2, <3>1, SealedStays DEF RoutesInv
  <2> QED BY <2>1, <2>2
<1> QED BY <1>1, <1>2, <1>3, <1>4, EngineStays, RoutesStay, TodoStays DEF RoutesInv
-----------------------------------------------------------------------------
\* The invariant holds in the first state and is kept by every step.
LEMMA RoutesInitially ==
    ASSUME Init
    PROVE  RoutesInv
<1>1. EngineOK
  BY DEF Init, RegistryInit, EmptyMap, EngineOK
<1>2. SocketsOK
  <2> DEFINE none == {}
  <2>1. sockets \in Seq(none) /\ \A socket \in none : DOMAIN socket = {"opened_for", "waiting"}
    BY DEF Init
  <2> HIDE DEF none
  <2> QED BY <2>1 DEF SocketsOK
<1>3. TodoOK
  <2> DEFINE none == {}
  <2>1. todo \in Seq(none) /\ \A action \in none : OpOK(action)
    BY DEF Init
  <2> HIDE DEF none
  <2> QED BY <2>1 DEF TodoOK
<1>4. TableOK(routes)
  <2>1. DOMAIN routes = {}
    BY DEF Init, EmptyMap
  <2> QED BY <2>1, FS_EmptySet DEF TableOK
<1>5. TasksOK /\ SealedOK
  BY DEF Init, EmptyMap, TasksOK, SealedOK
<1> QED BY <1>1, <1>2, <1>3, <1>4, <1>5 DEF RoutesInv

LEMMA RoutesStep ==
    ASSUME RoutesInv, [Next]_vars
    PROVE  RoutesInv'
<1>1. CASE HandleEvent
  BY <1>1, HandleEventStep
<1>2. CASE ExecuteAction
  BY <1>2, EnsureStep, SendStep, MigrateStep, RespawnStep, ReleaseStep, RemoveStep, StopStep
     DEF ExecuteAction
<1>3. CASE Shutdown \/ StopServing
  BY <1>3, StopStep
<1>4. CASE \E socket \in Range(routes) : Reply(socket)
  BY <1>4, ReplyStep
<1>5. CASE \E t \in DOMAIN tasks : Receiver(t)
  BY <1>5, ReceiverStep
<1>6. CASE UNCHANGED vars
  <2>1. UNCHANGED <<registryVars, sockets, sealed, todo, routes, tasks, spawned>>
    BY <1>6 DEF vars, tables
  <2>2. SocketsOK' /\ SocketsStay
    BY <2>1, SocketsUnchanged DEF RoutesInv
  <2>3. TableOK(routes)' /\ TasksOK' /\ TodoOK'
    BY <2>1, <2>2, RoutesStay, TasksStay, TodoStays DEF RoutesInv
  <2> QED BY <2>1, <2>3, QuietStep
<1> QED BY <1>1, <1>2, <1>3, <1>4, <1>5, <1>6 DEF Next

\* ServerService::run and spawn_upstream_receiver: whatever order sessions are
\* resumed, released and expired in, and whichever receiver is still running
\* when it is replaced, a reply is sealed for the conversation whose socket it
\* came in on.
THEOREM RepliesStay == Spec => []RepliesStayWithConversation
<1>1. Init => RoutesInv
  BY RoutesInitially
<1>2. RoutesInv /\ [Next]_vars => RoutesInv'
  BY RoutesStep
<1>3. RoutesInv => RepliesStayWithConversation
  BY DEF RoutesInv, SealedOK, RepliesStayWithConversation
<1> QED BY <1>1, <1>2, <1>3, PTL DEF Spec
=============================================================================
