--------------------------- MODULE UpstreamRoutes ---------------------------
(***************************************************************************)
(* ServerService::run of the managed service: the loop that executes the  *)
(* engine's actions one by one, the table of upstream sockets, and one    *)
(* receiver task per socket, on several threads.  The engine is what      *)
(* SessionRegistry says of it.  Frames to the client and the packet       *)
(* queues are the subject of ServiceTasks.                                *)
(***************************************************************************)
EXTENDS SessionRegistry, SequencesExt

CONSTANTS MaxConversations,     \* bound: conversations opened
          MaxReplies,           \* bound: datagrams from upstream
          MaxSocketErrors       \* bound: failing calls of recv

ASSUME RoutesAssumption ==
    /\ IsFiniteSet(SessionIds) /\ SessionIds = 1 .. Cardinality(SessionIds)
    /\ {MaxConversations, MaxReplies, MaxSocketErrors} \subseteq Nat

VARIABLES main,             \* the select loop: serving, stopped or failed
          todo,             \* the actions and parts of actions still to execute
          routes,           \* route key -> socket
          route_tasks,      \* route key -> task, the map of join handles
          tasks,            \* the receiver tasks that have not ended
          spawned,          \* tasks spawned so far
          sockets,          \* the sockets, with the datagrams waiting in them
          engine_errors, upstream_datagrams_dropped,
          established,      \* session ids used so far
          signalled,        \* the host has asked for a shutdown
          replies, sealed   \* history: datagrams from upstream, and what was sealed

tables == <<routes, route_tasks>>
metrics == <<engine_errors, upstream_datagrams_dropped>>
host == <<signalled, replies>>
vars == <<registryVars, main, todo, tables, tasks, spawned, sockets, metrics, established,
          host, sealed>>

Init ==
    /\ RegistryInit
    /\ main = "serving"
    /\ todo = <<>>
    /\ routes = EmptyMap
    /\ route_tasks = EmptyMap
    /\ tasks = EmptyMap
    /\ spawned = 0
    /\ sockets = <<>>
    /\ engine_errors = 0
    /\ upstream_datagrams_dropped = 0
    /\ established = 0
    /\ signalled = FALSE
    /\ replies = 0
    /\ sealed = {}

Key(session_id, id) == <<session_id, id>>
Op(name, argument) == [op |-> name, arg |-> argument]
InSelect == main = "serving" /\ todo = <<>>
-----------------------------------------------------------------------------
\* An event for the engine: a frame, or the timer.  The loop takes the lock,
\* and executes the actions the engine returns before it selects again.

Handles(actions) ==
    /\ InSelect
    /\ todo' = actions
    /\ UNCHANGED <<main, tables, tasks, spawned, sockets, metrics, host, sealed>>

HandleFinish ==
    /\ Handles(<<>>)
    /\ EstablishSession(established + 1)
    /\ established' = established + 1

HandleResumingFinish(old) ==
    /\ Handles(<<Op("Migrate", <<old, established + 1>>)>>)
    /\ ResumeSession(old, established + 1)
    /\ established' = established + 1

HandleResumeConversation(session_id, id) ==
    /\ Handles(<<>>)
    /\ BindConversation(session_id, id)
    /\ UNCHANGED established

HandleNewData(session_id) ==
    /\ opened < MaxConversations
    /\ Handles(<<Op("Deliver", Key(session_id, opened + 1))>>)
    /\ OpenConversation(session_id)
    /\ UNCHANGED established

HandleData(session_id, id) ==
    /\ id \in live[session_id].bound
    /\ Handles(<<Op("Deliver", Key(session_id, id))>>)
    /\ UNCHANGED <<registryVars, established>>

\* The actions of one expiry, conversations before sessions.  Closing a
\* session is no action of the service: its routes stay until the recovery
\* window ends.
ClosedRoutes(ids) ==
    UNION {{Op("Unroute", Key(s, id)) : id \in ids \cap live[s].held} : s \in DOMAIN live}

ForgottenSessions(forgotten) == {Op("Release", s) : s \in forgotten}

HandleTimer(ids, idle, forgotten) ==
    /\ \E first \in SetToSeqs(ClosedRoutes(ids)), second \in SetToSeqs(ForgottenSessions(forgotten)) :
           Handles(first \o second)
    /\ ExpireSessions(ids, idle, forgotten)
    /\ UNCHANGED established

\* The engine refuses a frame: run returns, and drops its handles without
\* aborting the tasks.
HandleFails ==
    /\ InSelect
    /\ main' = "failed"
    /\ UNCHANGED <<registryVars, todo, tables, tasks, spawned, sockets, metrics, established,
                   host, sealed>>
-----------------------------------------------------------------------------
\* execute_server_actions, one step per part that other tasks may see.

Doing(name) == main = "serving" /\ todo # <<>> /\ Head(todo).op = name
Argument == Head(todo).arg
Done == todo' = Tail(todo)

NewReceiver(key, socket) == [key |-> key, socket |-> socket, at |-> "recv", stop |-> "no"]

Aborted(ts) == [t \in DOMAIN tasks |-> IF t \in ts THEN [tasks[t] EXCEPT !.stop = "aborted"]
                                       ELSE tasks[t]]

engineSide == <<registryVars, established, host, sealed, metrics>>

Route(key) ==
    LET socket == Len(sockets) + 1
    IN  /\ sockets' = Append(sockets, [opened_for |-> key[2], waiting |-> 0])
        /\ routes' = Put(routes, key, socket)
        /\ spawned' = spawned + 1
        /\ tasks' = Put(tasks, spawned', NewReceiver(key, socket))
        /\ route_tasks' = Put(route_tasks, key, spawned')

EnsureUpstreamRoute ==
    /\ Doing("Deliver")
    /\ todo' = <<Op("Send", Argument)>> \o Tail(todo)
    /\ IF Argument \in DOMAIN routes THEN UNCHANGED <<tables, tasks, spawned, sockets>>
       ELSE Route(Argument)
    /\ UNCHANGED <<main, engineSide>>

SendUpstream ==
    /\ Doing("Send")
    /\ Done
    /\ upstream_datagrams_dropped' =
           IF Argument \in DOMAIN routes THEN upstream_datagrams_dropped
           ELSE upstream_datagrams_dropped + 1
    /\ UNCHANGED <<registryVars, main, tables, tasks, spawned, sockets, engine_errors,
                   established, host, sealed>>

\* bind, connect or send fails.
DeliveryFails ==
    /\ Doing("Send") \/ (Doing("Deliver") /\ Argument \notin DOMAIN routes)
    /\ main' = "failed"
    /\ todo' = <<>>
    /\ UNCHANGED <<tables, tasks, spawned, sockets, engineSide>>

RoutesOf(session_id) == {key \in DOMAIN routes : key[1] = session_id}

\* Mutant: the routes are removed now and inserted with their new tasks.
MigrateInTwoParts ==
    LET old == Argument[1]
    IN  /\ Doing("Migrate")
        /\ todo' = <<Op("Respawn", [pair |-> Argument,
                                    moved |-> [key \in RoutesOf(old) |-> routes[key]]])>>
                     \o Tail(todo)
        /\ routes' = Without(routes, RoutesOf(old))
        /\ UNCHANGED <<main, route_tasks, tasks, spawned, sockets, engineSide>>

\* The routes of the resumed session move under one write lock, with their
\* sockets; a datagram received meanwhile finds its old key gone.
Migrate ==
    LET old == Argument[1]
        new == Argument[2]
        moved == {Key(new, key[2]) : key \in RoutesOf(old)}
    IN  /\ Doing("Migrate")
        /\ todo' = <<Op("Respawn", [pair |-> Argument,
                                    moved |-> [key \in RoutesOf(old) |-> routes[key]]])>>
                     \o Tail(todo)
        /\ routes' = [key \in (DOMAIN routes \ RoutesOf(old)) \cup moved |->
                         IF key \in moved THEN routes[Key(old, key[2])] ELSE routes[key]]
        /\ UNCHANGED <<main, route_tasks, tasks, spawned, sockets, engineSide>>

\* Mutant: the old tasks are forgotten and not aborted.
ReplacedForgotten(moved) == {}

Replaced(moved) == {route_tasks[key] : key \in DOMAIN moved \cap DOMAIN route_tasks}

\* Mutant: keys and sockets are walked in opposite orders.
MovedSocketReversed(moved, order, i) == moved[order[Len(order) + 1 - i]]

MovedSocket(moved, order, i) == moved[order[i]]

\* Then each moved route gets a new task, for its new key.
Respawn ==
    LET moved == Argument.moved
        new == Argument.pair[2]
        order == SetToSeq(DOMAIN moved)
        NewKey(i) == Key(new, order[i][2])
        aborted == Aborted(Replaced(moved))
    IN  /\ Doing("Respawn")
        /\ Done
        /\ spawned' = spawned + Len(order)
        /\ tasks' = [t \in DOMAIN tasks \cup (spawned + 1 .. spawned') |->
                        IF t <= spawned THEN aborted[t]
                        ELSE NewReceiver(NewKey(t - spawned), MovedSocket(moved, order, t - spawned))]
        /\ route_tasks' = [key \in (DOMAIN route_tasks \ DOMAIN moved)
                                     \cup {NewKey(i) : i \in DOMAIN order} |->
                              IF \E i \in DOMAIN order : NewKey(i) = key
                              THEN spawned + (CHOOSE i \in DOMAIN order : NewKey(i) = key)
                              ELSE route_tasks[key]]
        /\ UNCHANGED <<main, routes, sockets, engineSide>>

ReleaseSession ==
    /\ Doing("Release")
    /\ \E order \in SetToSeqs({Op("Unroute", key) : key \in RoutesOf(Argument)}) :
           todo' = order \o Tail(todo)
    /\ UNCHANGED <<main, tables, tasks, spawned, sockets, engineSide>>

\* Mutant: only the receiver is stopped.
RemoveRouteKeepsTable ==
    /\ Doing("Unroute")
    /\ todo' = <<Op("Abort", Argument)>> \o Tail(todo)
    /\ UNCHANGED <<main, tables, tasks, spawned, sockets, engineSide>>

RemoveRoute ==
    /\ Doing("Unroute")
    /\ routes' = Without(routes, {Argument})
    /\ todo' = <<Op("Abort", Argument)>> \o Tail(todo)
    /\ UNCHANGED <<main, route_tasks, tasks, spawned, sockets, engineSide>>

AbortReceiver ==
    /\ Doing("Abort")
    /\ Done
    /\ route_tasks' = Without(route_tasks, {Argument})
    /\ tasks' = IF Argument \in DOMAIN route_tasks THEN Aborted({route_tasks[Argument]})
                ELSE tasks
    /\ UNCHANGED <<main, routes, spawned, sockets, engineSide>>
-----------------------------------------------------------------------------
\* Shutdown.  notify_waiters reaches the tasks that wait in their select and
\* no others.

Notified(ts) == [t \in DOMAIN ts |->
    IF ts[t].at = "recv" /\ ts[t].stop = "no" THEN [ts[t] EXCEPT !.stop = "notified"]
    ELSE ts[t]]

Shutdown ==
    /\ ~signalled
    /\ signalled' = TRUE
    /\ tasks' = Notified(tasks)
    /\ UNCHANGED <<registryVars, main, todo, tables, spawned, sockets, metrics, established,
                   replies, sealed>>

\* Mutant: the receivers are left to the notification.
StopServingNotifies ==
    /\ InSelect
    /\ main' = "stopped"
    /\ tasks' = Notified(tasks)
    /\ UNCHANGED <<todo, tables, spawned, sockets, engineSide>>

\* The loop ends, because it hears the shutdown or because the transport
\* poller has ended, and aborts the tasks it has handles of.
StopServing ==
    /\ InSelect
    /\ main' = "stopped"
    /\ tasks' = Notified(Aborted(Range(route_tasks)))
    /\ UNCHANGED <<todo, tables, spawned, sockets, engineSide>>
-----------------------------------------------------------------------------
\* spawn_upstream_receiver.  An aborted task may run on until the runtime
\* cancels it at an await.

Reply(socket) ==
    /\ replies < MaxReplies
    /\ replies' = replies + 1
    /\ sockets' = [sockets EXCEPT ![socket].waiting = @ + 1]
    /\ UNCHANGED <<registryVars, main, todo, tables, tasks, spawned, metrics, established,
                   signalled, sealed>>

loop == <<registryVars, main, todo, tables, spawned, established, host>>

End(t) == tasks' = Without(tasks, {t})

\* The datagram branch wins: a notification that is already there is lost.
Continue(t, at) ==
    tasks' = [tasks EXCEPT ![t].at = at,
                           ![t].stop = IF @ = "notified" THEN "no" ELSE @]

ReceiveDatagram(t) ==
    /\ tasks[t].at = "recv"
    /\ sockets[tasks[t].socket].waiting > 0
    /\ sockets' = [sockets EXCEPT ![tasks[t].socket].waiting = @ - 1]
    /\ IF tasks[t].key \in DOMAIN routes THEN Continue(t, "engine") ELSE End(t)
    /\ UNCHANGED <<loop, metrics, sealed>>

DropOversize(t) ==
    /\ tasks[t].at = "engine"
    /\ Continue(t, "recv")
    /\ upstream_datagrams_dropped' = upstream_datagrams_dropped + 1
    /\ UNCHANGED <<loop, sockets, engine_errors, sealed>>

EngineAccepts(key) == key[1] \in DOMAIN live /\ key[2] \in live[key[1]].bound

SealReply(t) ==
    /\ tasks[t].at = "engine"
    /\ EngineAccepts(tasks[t].key)
    /\ Continue(t, "recv")
    /\ sealed' = sealed \cup {[socket |-> tasks[t].socket, conversation |-> tasks[t].key[2]]}
    /\ UNCHANGED <<loop, sockets, metrics>>

\* Mutant: the task ends and the error is not counted.
EngineRefusesUncounted(t) ==
    /\ tasks[t].at = "engine"
    /\ ~EngineAccepts(tasks[t].key)
    /\ End(t)
    /\ UNCHANGED <<loop, sockets, metrics, sealed>>

EngineRefuses(t) ==
    /\ tasks[t].at = "engine"
    /\ ~EngineAccepts(tasks[t].key)
    /\ End(t)
    /\ engine_errors' = engine_errors + 1
    /\ UNCHANGED <<loop, sockets, upstream_datagrams_dropped, sealed>>

ReceiveFails(t) ==
    /\ tasks[t].at = "recv"
    /\ upstream_datagrams_dropped < MaxSocketErrors
    /\ End(t)
    /\ upstream_datagrams_dropped' = upstream_datagrams_dropped + 1
    /\ UNCHANGED <<loop, sockets, engine_errors, sealed>>

HearShutdown(t) ==
    /\ tasks[t].at = "recv" /\ tasks[t].stop = "notified"
    /\ End(t)
    /\ UNCHANGED <<loop, sockets, metrics, sealed>>

Cancelled(t) ==
    /\ tasks[t].stop = "aborted"
    /\ End(t)
    /\ UNCHANGED <<loop, sockets, metrics, sealed>>

Receiver(t) ==
    \/ ReceiveDatagram(t) \/ DropOversize(t) \/ SealReply(t) \/ EngineRefuses(t)
    \/ ReceiveFails(t) \/ HearShutdown(t) \/ Cancelled(t)
-----------------------------------------------------------------------------
HandleEvent ==
    \/ HandleFinish
    \/ \E old \in 1 .. established : HandleResumingFinish(old)
    \/ \E s \in DOMAIN live :
           \/ HandleNewData(s)
           \/ \E id \in live[s].held : HandleResumeConversation(s, id) \/ HandleData(s, id)
    \/ \E ids \in SUBSET UNION {live[s].held : s \in DOMAIN live},
          idle \in SUBSET DOMAIN live, forgotten \in SUBSET DOMAIN kept :
           HandleTimer(ids, idle, forgotten)
    \/ HandleFails

ExecuteAction ==
    \/ EnsureUpstreamRoute \/ SendUpstream \/ DeliveryFails
    \/ Migrate \/ Respawn
    \/ ReleaseSession \/ RemoveRoute \/ AbortReceiver

Next ==
    \/ HandleEvent \/ ExecuteAction
    \/ Shutdown \/ StopServing
    \/ \E socket \in Range(routes) : Reply(socket)
    \/ \E t \in DOMAIN tasks : Receiver(t)

Spec == Init /\ [][Next]_vars

\* The runtime cancels an aborted task.
FairSpec == Spec /\ \A t \in 1 .. MaxConversations * Cardinality(SessionIds) :
                        WF_vars(t \in DOMAIN tasks /\ Cancelled(t))
-----------------------------------------------------------------------------
HeldKeys ==
    UNION {{Key(s, id) : id \in HeldBy(s)} : s \in DOMAIN live \cup DOMAIN kept}

\* Whenever the loop waits for an event, the route table has exactly the
\* conversations the engine holds, in sessions or for recovery: none of them
\* has lost its socket and no socket outlives its conversation, although the
\* service learns of them only through the actions it executes.
RoutesMirrorEngine == InSelect => DOMAIN routes = HeldKeys

\* Between events every receiver that was not aborted serves a route, is the
\* one whose handle is stored for it, and no socket is read by two.
OneReceiverPerRoute ==
    /\ \A t, u \in DOMAIN tasks :
           tasks[t].socket = tasks[u].socket /\ t # u
             => "aborted" \in {tasks[t].stop, tasks[u].stop}
    /\ InSelect => \A t \in DOMAIN tasks :
           tasks[t].stop # "aborted"
             => /\ tasks[t].key \in DOMAIN routes
                /\ routes[tasks[t].key] = tasks[t].socket
                /\ route_tasks[tasks[t].key] = t

\* lib.rs:255, "retained ... then moved atomically": as long as the engine
\* holds a conversation its socket stays in the table, and is the same one.
MovedAtomically ==
    [][\A key \in DOMAIN routes :
          (\E s \in DOMAIN live' \cup DOMAIN kept' : key[2] \in HeldBy(s)')
            => \E new \in DOMAIN routes' : new[2] = key[2] /\ routes'[new] = routes[key]]_vars

\* A route whose receiver has ended, and which is therefore deaf, shows in
\* the counters, unless the host asked for a shutdown.
DeadReceiversCounted ==
    InSelect /\ ~signalled
      => Cardinality({key \in DOMAIN routes : route_tasks[key] \notin DOMAIN tasks})
           <= engine_errors + upstream_datagrams_dropped

\* A reply is sealed for the conversation whose datagrams went out through
\* the socket it came in on, also by a task that is about to be replaced.
RepliesStayWithConversation ==
    \A reply \in sealed : sockets[reply.socket].opened_for = reply.conversation

\* When the loop has ended with Ok every receiver ends, those replaced by a
\* migration included.
StopEndsReceivers == main = "stopped" ~> DOMAIN tasks = {}
=============================================================================
