---------------------------- MODULE ClientEngine ----------------------------
(***************************************************************************)
(* ClientEngine of engine.rs, one action per event it handles.  An event  *)
(* that returns an error and changes nothing is no step.                  *)
(***************************************************************************)
EXTENDS ConversationHandles, SequencesExt

CONSTANTS LocalPeers,               \* local UDP endpoints
          HandshakeTimeout, HandshakeRetryInterval, HandshakeMaxAttempts,
          SessionTimeout,           \* staleness of a Ready session
          ConversationIdleTimeout, MaxConversations,
          ReconnectQueueCapacity, ReconnectQueueTimeout,
          HostHorizon,              \* bound: the host is active until then
          HostCloses,               \* whether the host closes conversations
          MaxHellos,                \* bound: handshakes begun
          MaxDatagrams              \* bound: local datagrams received

ASSUME ClientAssumption ==
    /\ {HandshakeTimeout, HandshakeRetryInterval, HandshakeMaxAttempts, SessionTimeout,
        ConversationIdleTimeout, MaxConversations, ReconnectQueueCapacity,
        ReconnectQueueTimeout} \subseteq Nat \ {0}
    /\ HandshakeRetryInterval <= HandshakeTimeout
    /\ {HostHorizon, MaxHellos, MaxDatagrams} \subseteq Nat

VARIABLES state,                    \* SessionState
          handshake,                \* Option<ClientHandshake>
          session,                  \* Option<ClientSession>
          by_peer,                  \* local peer -> conversation
          by_id,                    \* conversation id -> local peer
          queued,                   \* the reconnect queue
          hellos,                   \* handshakes begun so far
          client_ids,               \* conversation ids generated so far
          datagrams,                \* history: origin of every local datagram
          dropped,                  \* history: ClientDatagramDropped reported
          refused,                  \* history: handle_local returned an error
          delivered                 \* history: DeliverToClient actions

engine == <<state, handshake, session, by_peer, by_id, queued, hellos, client_ids>>
history == <<datagrams, dropped, refused, delivered>>
clientVars == <<engine, history>>

ClientInit ==
    /\ state = "Idle"
    /\ handshake = None
    /\ session = None
    /\ by_peer = EmptyMap
    /\ by_id = EmptyMap
    /\ queued = <<>>
    /\ hellos = 0
    /\ client_ids = 0
    /\ datagrams = <<>>
    /\ dropped = {}
    /\ refused = {}
    /\ delivered = <<>>

IsHandshaking == state \in {"Handshaking", "Reconnecting"}
AwaitingServerHello == IsHandshaking /\ handshake.server_hello = None
-----------------------------------------------------------------------------
\* Starting a handshake.

BeginHandshake(new_state, resumption) ==
    LET hello == ClientHello(hellos + 1, resumption)
    IN  /\ hellos < MaxHellos
        /\ hellos' = hellos + 1
        /\ handshake' = [hello |-> hello, server_hello |-> None,
                         started_at |-> now, last_sent_at |-> now, attempts |-> 1]
        /\ state' = new_state
        /\ ToServer({HelloFrame(hello)})

\* A reconnecting client offers the credential of any one conversation, but
\* only if every conversation holds a credential of the same session.
OfferedCredentials ==
    LET peers == DOMAIN by_peer
        held == {by_peer[p].resumption : p \in peers}
    IN  IF /\ peers # {}
           /\ None \notin held
           /\ \A r, s \in held : r.source = s.source
        THEN {r.credential : r \in held}
        ELSE {None}

\* Mutant: a failed reconnect leaves the state as it was.
BeginReconnectStaysReady ==
    /\ session' = None
    /\ \/ \E credential \in OfferedCredentials : BeginHandshake("Reconnecting", credential)
       \/ /\ handshake' = None
          /\ ToServer({})
          /\ UNCHANGED <<state, hellos>>

\* The second disjunct: no randomness for the new hello.
BeginReconnect ==
    /\ session' = None
    /\ \/ \E credential \in OfferedCredentials : BeginHandshake("Reconnecting", credential)
       \/ /\ state' = "Closed"
          /\ handshake' = None
          /\ ToServer({})
          /\ UNCHANGED hellos

Start ==
    /\ now <= HostHorizon
    /\ state = "Idle"
    /\ BeginHandshake("Handshaking", None)
    /\ UNCHANGED <<session, by_peer, by_id, queued, client_ids, history>>

Reconnect ==
    /\ now <= HostHorizon
    /\ state = "Ready"
    /\ BeginReconnect
    /\ UNCHANGED <<by_peer, by_id, queued, client_ids, history>>
-----------------------------------------------------------------------------
\* Local datagrams.  The n-th one received stands for its payload.

Arrive(local_peer) ==
    /\ now <= HostHorizon
    /\ Len(datagrams) < MaxDatagrams
    /\ datagrams' = Append(datagrams, local_peer)

ReadySessionIsStale == now - session.last_received_at >= SessionTimeout

\* Mutant: the queue is a stack.
EnqueueInFront(local_peer) ==
    LET datagram == Len(datagrams) + 1
    IN  \/ /\ Len(queued) >= ReconnectQueueCapacity
           /\ dropped' = dropped \cup {datagram}
           /\ UNCHANGED queued
        \/ /\ Len(queued) < ReconnectQueueCapacity
           /\ queued' = <<[peer |-> local_peer, datagram |-> datagram,
                           queued_at |-> now]>> \o queued
           /\ UNCHANGED dropped

EnqueueReconnectDatagram(local_peer) ==
    LET datagram == Len(datagrams) + 1
    IN  \/ /\ Len(queued) >= ReconnectQueueCapacity
           /\ dropped' = dropped \cup {datagram}
           /\ UNCHANGED queued
        \/ /\ Len(queued) < ReconnectQueueCapacity
           /\ queued' = Append(queued, [peer |-> local_peer, datagram |-> datagram,
                                        queued_at |-> now])
           /\ UNCHANGED dropped

\* Business data on a stale session reconnects first.
LocalOnStaleSession(local_peer) ==
    /\ Arrive(local_peer)
    /\ state = "Ready"
    /\ ReadySessionIsStale
    /\ BeginReconnect
    /\ \/ /\ state' = "Reconnecting"
          /\ EnqueueReconnectDatagram(local_peer)
       \/ /\ state' = "Closed"
          /\ dropped' = dropped \cup {Len(datagrams) + 1}
          /\ UNCHANGED queued
    /\ UNCHANGED <<by_peer, by_id, client_ids, refused, delivered>>

LocalWhileHandshaking(local_peer) ==
    /\ Arrive(local_peer)
    /\ IsHandshaking
    /\ EnqueueReconnectDatagram(local_peer)
    /\ ToServer({})
    /\ UNCHANGED <<state, handshake, session, by_peer, by_id, hellos, client_ids,
                   refused, delivered>>

\* The part of the engine that sending a datagram reads and changes.
Outgoing == [by_peer |-> by_peer, by_id |-> by_id, session |-> session,
             ids |-> client_ids, frames |-> {}, dropped |-> dropped]

\* Mutant: conversations opened earlier in the same flush are not counted.
HasRoomBeforeFlush(out, local_peer) ==
    local_peer \in DOMAIN out.by_peer \/ Cardinality(DOMAIN by_peer) < MaxConversations

HasRoom(out, local_peer) ==
    local_peer \in DOMAIN out.by_peer \/ Cardinality(DOMAIN out.by_peer) < MaxConversations

\* Mutant: the packet number does not advance.
SealForSamePacketNumber(out, type, id, body) ==
    LET handles == HandleForOrAllocate(out.session.handles, id)
        record == Record(type, out.session.key, out.session.next_packet_number,
                         handles.by_id[id], body)
    IN  [out EXCEPT !.session.handles = handles, !.frames = @ \cup {record}]

\* Seal a record for the conversation id, allocating its handle if need be.
SealFor(out, type, id, body) ==
    LET handles == HandleForOrAllocate(out.session.handles, id)
        record == Record(type, out.session.key, out.session.next_packet_number,
                         handles.by_id[id], body)
    IN  [out EXCEPT !.session.handles = handles,
                    !.session.next_packet_number = @ + 1,
                    !.frames = @ \cup {record}]

NewConversation(id) == [id |-> id, last_activity |-> now, resumption |-> None]

SendDatagram(out, local_peer, datagram) ==
    LET opened == IF local_peer \in DOMAIN out.by_peer
                  THEN [out EXCEPT !.by_peer[local_peer].last_activity = now]
                  ELSE [out EXCEPT !.ids = @ + 1,
                                   !.by_peer = Put(@, local_peer, NewConversation(out.ids + 1)),
                                   !.by_id = Put(@, out.ids + 1, local_peer)]
    IN  SealFor(opened, "Data", opened.by_peer[local_peer].id, datagram)

Commit(out) ==
    /\ by_peer' = out.by_peer
    /\ by_id' = out.by_id
    /\ session' = out.session
    /\ client_ids' = out.ids
    /\ dropped' = out.dropped
    /\ ToServer(out.frames)

LocalOnReadySession(local_peer) ==
    /\ Arrive(local_peer)
    /\ state = "Ready"
    /\ ~ReadySessionIsStale
    /\ HasRoom(Outgoing, local_peer)
    /\ Commit(SendDatagram(Outgoing, local_peer, Len(datagrams) + 1))
    /\ UNCHANGED <<state, handshake, queued, hellos, refused, delivered>>

\* No session to wait for, or no room for another conversation.
LocalRefused(local_peer) ==
    /\ Arrive(local_peer)
    /\ \/ state \in {"Idle", "Closed"}
       \/ state = "Ready" /\ ~ReadySessionIsStale /\ ~HasRoom(Outgoing, local_peer)
    /\ refused' = refused \cup {Len(datagrams) + 1}
    /\ ToServer({})
    /\ UNCHANGED <<engine, dropped, delivered>>

HandleLocal(local_peer) ==
    \/ LocalOnStaleSession(local_peer)
    \/ LocalWhileHandshaking(local_peer)
    \/ LocalOnReadySession(local_peer)
    \/ LocalRefused(local_peer)
-----------------------------------------------------------------------------
\* Handshake frames.

\* attempts saturates at the limit it is compared with.
Resent ==
    [handshake EXCEPT !.last_sent_at = now,
                      !.attempts = IF @ < HandshakeMaxAttempts THEN @ + 1 ELSE @]

HandleHelloRetry(frame) ==
    /\ frame.type = "HelloRetry"
    /\ AwaitingServerHello
    /\ frame.id = handshake.hello.id
    /\ LET hello == WithCookie(handshake.hello, frame.cookie)
       IN  /\ handshake' = [Resent EXCEPT !.hello = hello]
           /\ ToServer({HelloFrame(hello)})
    /\ UNCHANGED <<state, session, by_peer, by_id, queued, hellos, client_ids, history>>

\* The session a credential of ours belongs to, if a conversation still
\* holds that credential.
ResumptionSource(credential) ==
    LET holders == {p \in DOMAIN by_peer : /\ by_peer[p].resumption # None
                                           /\ by_peer[p].resumption.credential = credential}
    IN  IF holders = {} THEN None
        ELSE by_peer[CHOOSE p \in holders : TRUE].resumption.source

NewClientSession(transcript) ==
    [key |-> transcript, next_packet_number |-> 0, replay |-> {}, last_received_at |-> now,
     handles |-> NoHandles,
     resumption_source |-> ResumptionSource(transcript.hello.resumption)]

\* The first ServerHello derives the keys; a repeated one, equal to it,
\* repeats the finish.
HandleServerHello(frame) ==
    /\ frame.type = "ServerHello"
    /\ IsHandshaking
    /\ frame.transcript.hello = handshake.hello
    /\ \/ /\ handshake.server_hello = None
          /\ session' = NewClientSession(frame.transcript)
       \/ /\ handshake.server_hello = frame.transcript
          /\ UNCHANGED session
    /\ handshake' = [Resent EXCEPT !.server_hello = frame.transcript]
    /\ ToServer({FinishFrame(frame.transcript)})
    /\ UNCHANGED <<state, by_peer, by_id, queued, hellos, client_ids, history>>

\* Tell the server which handle a restored conversation now has.
Rebind(out, local_peer) ==
    LET conversation == out.by_peer[local_peer]
    IN  SealFor(out, "ResumeConversation", conversation.id, conversation.resumption.credential)

\* Mutant: an expired datagram is skipped without a report.
FlushQueuedSilently(out, item) ==
    IF now - item.queued_at >= ReconnectQueueTimeout \/ ~HasRoom(out, item.peer)
    THEN out
    ELSE SendDatagram(out, item.peer, item.datagram)

FlushQueued(out, item) ==
    IF now - item.queued_at >= ReconnectQueueTimeout \/ ~HasRoom(out, item.peer)
    THEN [out EXCEPT !.dropped = @ \cup {item.datagram}]
    ELSE SendDatagram(out, item.peer, item.datagram)

\* The acknowledgement that completes the handshake.  A resumption that was
\* offered and not granted abandons the conversations; a granted one rebinds
\* those of the resumed session, in the order of the hash map; then the
\* queue is sent.
HandleHandshakeAck(frame) ==
    /\ IsHandshaking
    /\ session # None
    /\ frame.type = "HandshakeAck"
    /\ Opens(session, frame)
    /\ LET opened == [MarkOpened(session, frame) EXCEPT !.last_received_at = now]
           resumed == opened.key.resumed
           kept == IF handshake.hello.resumption # None /\ ~resumed
                   THEN [Outgoing EXCEPT !.by_peer = EmptyMap, !.by_id = EmptyMap,
                                         !.session = [opened EXCEPT !.handles = NoHandles]]
                   ELSE [Outgoing EXCEPT !.session = opened]
           restored == {p \in DOMAIN by_peer :
                           /\ resumed
                           /\ by_peer[p].resumption # None
                           /\ by_peer[p].resumption.source = opened.resumption_source}
       IN  \E order \in SetToSeqs(restored) :
               Commit(FoldLeft(FlushQueued, FoldLeft(Rebind, kept, order), queued))
    /\ state' = "Ready"
    /\ handshake' = None
    /\ queued' = <<>>
    /\ UNCHANGED <<hellos, datagrams, refused, delivered>>
-----------------------------------------------------------------------------
\* Protected records.

\* A record other than the acknowledgement is opened, which marks its packet
\* number as seen, and then refused. The server of this repository seals no
\* other record before the client has sent one, so none of its frames gets here.
HandleEarlyRecord(frame) ==
    /\ IsHandshaking
    /\ session # None
    /\ frame.type # "HandshakeAck"
    /\ Opens(session, frame)
    /\ session' = MarkOpened(session, frame)
    /\ ToServer({})
    /\ UNCHANGED <<state, handshake, by_peer, by_id, queued, hellos, client_ids, history>>

\* The local peer of a record's handle, or None: then the record is refused
\* after it was opened.
PeerOf(frame) ==
    LET ids == session.handles.by_handle
    IN  IF frame.handle \in DOMAIN ids /\ ids[frame.handle] \in DOMAIN by_id
        THEN by_id[ids[frame.handle]]
        ELSE None

HandleReadyRecord(frame) ==
    LET peer == PeerOf(frame)
        touched == IF peer = None THEN by_peer
                   ELSE [by_peer EXCEPT ![peer].last_activity = now]
    IN  /\ state = "Ready"
        /\ session # None
        /\ Opens(session, frame)
        /\ session' = [MarkOpened(session, frame) EXCEPT !.last_received_at = now]
        /\ \/ /\ frame.type = "ResumptionCredential"
              /\ by_peer' = IF peer = None THEN by_peer
                            ELSE [touched EXCEPT ![peer].resumption =
                                     [source |-> session.key.session_id,
                                      credential |-> frame.body]]
              /\ UNCHANGED delivered
           \/ /\ frame.type = "Data"
              /\ by_peer' = touched
              /\ delivered' = IF peer = None THEN delivered
                              ELSE Append(delivered, [peer |-> peer, reply |-> frame.body])
        /\ ToServer({})
        /\ UNCHANGED <<state, handshake, by_id, queued, hellos, client_ids,
                       datagrams, dropped, refused>>

ClientHandleTunnel(frame) ==
    \/ HandleHelloRetry(frame)
    \/ HandleServerHello(frame)
    \/ HandleHandshakeAck(frame)
    \/ HandleEarlyRecord(frame)
    \/ HandleReadyRecord(frame)
-----------------------------------------------------------------------------
\* Timers and close.

\* Mutant: the handles of a closed conversation stay bound.
ForgetNothing(ids) == session

ForgetIds(ids) ==
    IF session = None THEN None
    ELSE [session EXCEPT !.handles = RemoveIds(@, ids)]

\* Mutant: only the attempts are limited.
GivesUpOnAttempts ==
    /\ IsHandshaking
    /\ handshake.attempts >= HandshakeMaxAttempts
    /\ now - handshake.last_sent_at >= HandshakeRetryInterval

HandshakeGivesUp ==
    /\ IsHandshaking
    /\ \/ now - handshake.started_at >= HandshakeTimeout
       \/ /\ handshake.attempts >= HandshakeMaxAttempts
          /\ now - handshake.last_sent_at >= HandshakeRetryInterval

HandshakeRetries ==
    /\ IsHandshaking
    /\ now - handshake.last_sent_at >= HandshakeRetryInterval
    /\ handshake.attempts < HandshakeMaxAttempts

Numbers(items) == {items[i].datagram : i \in DOMAIN items}
Expired(item) == now - item.queued_at >= ReconnectQueueTimeout

\* TimeAdvanced: give up or repeat the handshake, expire the queue from its
\* front (the queue is in the order of queued_at, so the expired datagrams
\* are a prefix), expire idle conversations.
ClientExpire ==
    LET idle == {p \in DOMAIN by_peer :
                    now - by_peer[p].last_activity >= ConversationIdleTimeout}
        ids == {by_peer[p].id : p \in idle}
    IN  /\ by_peer' = Without(by_peer, idle)
        /\ by_id' = Without(by_id, ids)
        /\ \/ /\ HandshakeGivesUp
              /\ state' = "Closed"
              /\ handshake' = None
              /\ session' = None
              /\ queued' = <<>>
              /\ dropped' = dropped \cup Numbers(queued)
              /\ ToServer({})
           \/ /\ ~HandshakeGivesUp
              /\ session' = ForgetIds(ids)
              /\ queued' = SelectSeq(queued, LAMBDA item : ~Expired(item))
              /\ dropped' = dropped \cup Numbers(SelectSeq(queued, Expired))
              /\ \/ /\ HandshakeRetries
                    /\ handshake' = Resent
                    /\ ToServer({IF handshake.server_hello = None
                                 THEN HelloFrame(handshake.hello)
                                 ELSE FinishFrame(handshake.server_hello)})
                 \/ /\ ~HandshakeRetries
                    /\ ToServer({})
                    /\ UNCHANGED handshake
              /\ UNCHANGED state
        /\ UNCHANGED <<hellos, client_ids, datagrams, refused, delivered>>

ClientClose(id) ==
    /\ HostCloses
    /\ now <= HostHorizon
    /\ id \in DOMAIN by_id
    /\ by_peer' = Without(by_peer, {by_id[id]})
    /\ by_id' = Without(by_id, {id})
    /\ session' = ForgetIds({id})
    /\ ToServer({})
    /\ UNCHANGED <<state, handshake, queued, hellos, client_ids, history>>

ClientNext ==
    \/ Start
    \/ Reconnect
    \/ \E local_peer \in LocalPeers : HandleLocal(local_peer)
    \/ \E frame \in s2c : ClientHandleTunnel(frame)
    \/ ClientExpire
    \/ \E id \in DOMAIN by_id : ClientClose(id)
=============================================================================
