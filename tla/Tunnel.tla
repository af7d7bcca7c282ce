------------------------------- MODULE Tunnel -------------------------------
(***************************************************************************)
(* One client engine and one server engine on a network that loses,       *)
(* duplicates and reorders frames, while the client's path changes.       *)
(***************************************************************************)
EXTENDS ClientEngine, ServerEngine

vars == <<network, clientVars, serverVars>>

Init == NetworkInit /\ ClientInit /\ ServerInit

ClientStep == ClientNext /\ UNCHANGED serverVars
ServerStep == ServerNext /\ UNCHANGED clientVars
NetworkStep == (Tick \/ ChangePath) /\ UNCHANGED <<clientVars, serverVars>>

Next == ClientStep \/ ServerStep \/ NetworkStep

Spec == Init /\ [][Next]_vars

\* The timers of both services tick forever, and so does the clock.
FairSpec ==
    /\ Spec
    /\ WF_vars(Tick /\ UNCHANGED <<clientVars, serverVars>>)
    /\ WF_vars(ClientExpire /\ UNCHANGED serverVars)
    /\ WF_vars(~panicked /\ ServerExpire /\ UNCHANGED clientVars)
-----------------------------------------------------------------------------
ClientSessions == IF session = None THEN {} ELSE {session}

\* The types of the variables of both engines.
TypeOK ==
    /\ now \in 0 .. MaxNow /\ path \in Paths
    /\ state \in {"Idle", "Handshaking", "Ready", "Reconnecting", "Closed"}
    /\ IsHandshaking <=> handshake # None
    /\ state = "Ready" => session # None
    /\ DOMAIN by_peer \subseteq LocalPeers
    /\ DOMAIN by_id \subseteq 1 .. client_ids
    /\ hellos \in 0 .. MaxHellos /\ Len(datagrams) <= MaxDatagrams
    /\ dropped \cup refused \subseteq DOMAIN datagrams
    /\ DOMAIN pending \cup DOMAIN sessions \cup DOMAIN resumable \subseteq 1 .. session_ids
    /\ session_ids \in 0 .. MaxSessionIds
    /\ \A id \in DOMAIN sessions :
           /\ sessions[id].key.session_id = id
           /\ DOMAIN sessions[id].conversations \subseteq 1 .. server_ids
    /\ panicked \in BOOLEAN /\ Len(replies) <= MaxReplies

\* The client never seals two records with the same key and packet number,
\* whatever it retransmits, flushes or rebinds: a nonce is never reused.
ClientNonceUnique ==
    \A p, q \in c2s :
        /\ p.frame.type \in RecordTypes /\ q.frame.type \in RecordTypes
        /\ p.frame.key = q.frame.key
        /\ p.frame.packet_number = q.frame.packet_number
        => p.frame = q.frame

\* Nor does the server, whose acknowledgement, credentials and data share
\* one sequence of packet numbers.
ServerNonceUnique ==
    \A f, g \in s2c :
        /\ f.type \in RecordTypes /\ g.type \in RecordTypes
        /\ f.key = g.key
        /\ f.packet_number = g.packet_number
        => f = g

\* A datagram reaches the upstream at most once and a reply the client at
\* most once, however often their frames are delivered and across sessions.
DeliveredOnce ==
    /\ \A i, j \in DOMAIN upstream : upstream[i].datagram = upstream[j].datagram => i = j
    /\ \A i, j \in DOMAIN delivered : delivered[i].reply = delivered[j].reply => i = j

\* Conversations do not mix: everything a server conversation carries comes
\* from one local peer, and its replies go to no other, through reconnects,
\* resumption, lost bindings and reused handles.
NoCrossTalk ==
    /\ \A i, j \in DOMAIN upstream :
           upstream[i].conversation = upstream[j].conversation
             => datagrams[upstream[i].datagram] = datagrams[upstream[j].datagram]
    /\ \A i \in DOMAIN upstream, j \in DOMAIN delivered :
           upstream[i].conversation = delivered[j].reply.conversation
             => datagrams[upstream[i].datagram] = delivered[j].peer

\* Every local datagram is in exactly one place: still queued, sent, reported
\* as dropped, or refused with an error.  None disappears silently and none
\* is both sent and reported as dropped.
SentDatagrams == {p.frame.body : p \in {q \in c2s : q.frame.type = "Data"}}
DatagramsAccountedFor ==
    /\ SentDatagrams \cup dropped \cup refused \cup Numbers(queued) = DOMAIN datagrams
    /\ Cardinality(SentDatagrams) + Cardinality(dropped) + Cardinality(refused)
         + Len(queued) = Len(datagrams)

\* Records leave in the order their datagrams arrived, also when they waited
\* in the reconnect queue: a later packet number carries a later datagram.
SentInOrder ==
    \A p, q \in c2s :
        /\ p.frame.type = "Data" /\ q.frame.type = "Data"
        /\ p.frame.key = q.frame.key
        /\ p.frame.packet_number < q.frame.packet_number
        => p.frame.body < q.frame.body

\* The limits of the configuration hold: when hellos of two paths compete and
\* a session replaces another, when a session inherits as many conversations
\* as it may hold and data of one whose handle is not bound yet arrives, and
\* when the queue holds datagrams of more peers than may have a conversation.
WithinLimits ==
    /\ Cardinality(DOMAIN by_peer) <= MaxConversations
    /\ Len(queued) <= ReconnectQueueCapacity
    /\ Cardinality(DOMAIN pending) <= MaxPendingHandshakes
    /\ \A peer \in Paths : Cardinality({id \in DOMAIN pending : pending[id].peer = peer})
                             <= MaxPendingHandshakesPerPeer
    /\ Cardinality(DOMAIN sessions) <= MaxSessions
    /\ \A id \in DOMAIN sessions :
           Cardinality(DOMAIN sessions[id].conversations) <= ServerMaxConversations

\* A session id is pending, active or retained, never two of these, and two
\* handshakes in flight never resume the same session.
SessionIdsExclusive ==
    /\ DOMAIN pending \cap DOMAIN sessions = {}
    /\ DOMAIN pending \cap DOMAIN resumable = {}
    /\ DOMAIN sessions \cap DOMAIN resumable = {}
    /\ \A i, j \in DOMAIN pending :
           pending[i].resume_from # None /\ pending[i].resume_from = pending[j].resume_from
             => i = j

\* A server conversation is owned by one session: resumption moves it and
\* never copies it, so its upstream socket has one owner.
Held(id) == IF id \in DOMAIN sessions THEN sessions[id].conversations
            ELSE resumable[id].conversations
ConversationOwnedOnce ==
    \A i, j \in DOMAIN sessions \cup DOMAIN resumable :
        i # j => DOMAIN Held(i) \cap DOMAIN Held(j) = {}

\* When conversations expire no later than sessions, as in the default
\* configuration (180 s and 300 s), expire finds no conversation in an idle
\* session: nothing is ever retained, and only a live session can be resumed.
RecoveryWindowUnused ==
    ServerConversationIdleTimeout <= SessionIdleTimeout => DOMAIN resumable = {}

\* The client's handles agree with its conversations: the maps are mutually
\* inverse, and a bound handle names a conversation of a local peer.
ClientHandlesConsistent ==
    /\ \A s \in ClientSessions :
           MutuallyInverse(s.handles) /\ DOMAIN s.handles.by_id \subseteq DOMAIN by_id
    /\ \A p \in DOMAIN by_peer : by_peer[p].id \in DOMAIN by_id /\ by_id[by_peer[p].id] = p
    /\ \A id \in DOMAIN by_id : by_id[id] \in DOMAIN by_peer /\ by_peer[by_id[id]].id = id

\* So do the server's, in every session: a handle that survived the
\* conversation it names would revive it under a stale owner.
ServerHandlesConsistent ==
    \A s \in DOMAIN sessions :
        /\ MutuallyInverse(sessions[s].handles)
        /\ DOMAIN sessions[s].handles.by_id \subseteq DOMAIN sessions[s].conversations

\* Both sides of a session hold the same keys and the same view of whether
\* it was resumed.
KeysAgree ==
    \A s \in ClientSessions :
        s.key.session_id \in DOMAIN sessions => sessions[s.key.session_id].key = s.key

\* The server engine keeps the promise of SessionRegistry to its host: what
\* its sessions hold and have bound, and what is kept for closed ones, moves
\* only by opening, binding, closing, expiring and resuming.
Registered ==
    [id \in DOMAIN sessions |-> [held |-> DOMAIN sessions[id].conversations,
                                 bound |-> DOMAIN sessions[id].handles.by_id]]
KeptForResumption == [id \in DOMAIN resumable |-> DOMAIN resumable[id].conversations]

Registry == INSTANCE SessionRegistry WITH
    SessionIds <- 1 .. MaxSessionIds,
    live <- Registered, kept <- KeptForResumption, opened <- server_ids
ImplementsRegistry == Registry!RegistrySpec
-----------------------------------------------------------------------------
\* A handshake ends: the client becomes Ready or gives up.
HandshakeEnds == IsHandshaking ~> ~IsHandshaking

\* A pending handshake does not occupy its slot, or block the resumption of
\* a session, for ever.  (One begun when the modelled time is up is left out.)
PendingEnds ==
    \A id \in 1 .. MaxSessionIds :
        id \in DOMAIN pending /\ pending[id].created_at <= HostHorizon
          ~> id \notin DOMAIN pending \/ panicked
-----------------------------------------------------------------------------
\* What the documents and comments of the repository promise and the code
\* does not keep.

\* engine.rs:1331, "active conversation has a wire handle": the refresh of
\* the credentials always finds one.
NoPanic == ~panicked

\* udp2raw-ng-spec.md:668: a reconnect restores the conversations.  When the
\* hello the client is waiting on arrives for the first time, with a valid
\* credential for a conversation that a session still holds and no other
\* handshake is resuming, it is honoured.  (A hello a session was already
\* established from is a repetition, and need not be.)
CredentialHonoured ==
    [][\A id \in DOMAIN pending' \ DOMAIN pending :
        LET hello == pending'[id].hello
        IN  /\ IsHandshaking /\ handshake.hello = hello
            /\ \A s \in DOMAIN sessions : sessions[s].key.hello # hello
            /\ hello.resumption # None /\ CredentialIsValid(hello.resumption)
            /\ \E s \in DOMAIN sessions :
                   /\ hello.resumption.conversation \in DOMAIN sessions[s].conversations
                   /\ \A other \in DOMAIN pending : pending[other].resume_from # s
            => pending'[id].resume_from # None]_vars

\* implementation-status.md:118, and lib.rs:255: when a session that served
\* conversations is closed because it is idle, and is not resumed by another,
\* its conversations are kept for the recovery window.
RetainedAfterIdleClose ==
    [][\A s \in DOMAIN sessions \ DOMAIN sessions' :
        /\ sessions[s].credential_expires_at # None
        /\ \A t \in DOMAIN sessions' : sessions'[t].resumed_from # s
        => s \in DOMAIN resumable']_vars
=============================================================================
