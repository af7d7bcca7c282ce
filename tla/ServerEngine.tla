---------------------------- MODULE ServerEngine ----------------------------
(***************************************************************************)
(* ServerEngine of engine.rs, one action per event it handles.  An event  *)
(* that returns an error and changes nothing is no step.                  *)
(***************************************************************************)
EXTENDS ConversationHandles, TokenBucket, SequencesExt

CONSTANTS RequireHandshakeCookie, HandshakeCookieLifetime,
          PendingTimeout,           \* handshake_timeout of the server
          SessionIdleTimeout, ServerConversationIdleTimeout, ResumptionLifetime,
          MaxPendingHandshakesPerPeer, MaxSessions, ServerMaxConversations,
          UpstreamCloses,           \* whether the host closes conversations
          MaxSessionIds,            \* bound: sessions offered
          MaxReplies                \* bound: datagrams from upstream

ASSUME ServerAssumption ==
    /\ {HandshakeCookieLifetime, PendingTimeout, SessionIdleTimeout,
        ServerConversationIdleTimeout, ResumptionLifetime,
        MaxPendingHandshakesPerPeer, MaxSessions, ServerMaxConversations} \subseteq Nat \ {0}
    /\ {MaxSessionIds, MaxReplies} \subseteq Nat
    /\ None \notin Nat

VARIABLES pending,                  \* session id -> PendingHandshake
          sessions,                 \* session id -> ServerSession
          resumable,                \* session id -> ResumableSession
          buckets,                  \* peer -> HandshakeRateBucket
          session_ids,              \* session ids generated so far
          server_ids,               \* conversation ids generated so far
          panicked,                 \* an expect failed: the server is gone
          upstream,                 \* history: DeliverToUpstream actions
          replies                   \* history: datagrams from upstream

serverState == <<pending, sessions, resumable, buckets, session_ids, server_ids, panicked>>
serverVars == <<serverState, upstream, replies>>

ServerInit ==
    /\ pending = EmptyMap
    /\ sessions = EmptyMap
    /\ resumable = EmptyMap
    /\ buckets = EmptyMap
    /\ session_ids = 0
    /\ server_ids = 0
    /\ panicked = FALSE
    /\ upstream = <<>>
    /\ replies = <<>>
-----------------------------------------------------------------------------
\* ClientHello.

AllowHandshakeAttempt(peer) ==
    /\ Admits(buckets, peer, now)
    /\ buckets' = Charged(buckets, peer, now)

SendHelloRetry(peer, hello) ==
    /\ RequireHandshakeCookie
    /\ ~CookieIsValid(hello, peer, HandshakeCookieLifetime)
    /\ ToClient({RetryFrame(hello.id, Cookie(peer, hello.id))})
    /\ UNCHANGED <<pending, session_ids>>

CookieAccepted(peer, hello) ==
    RequireHandshakeCookie => CookieIsValid(hello, peer, HandshakeCookieLifetime)

PendingTranscript(session_id) ==
    LET p == pending[session_id]
    IN  Transcript(p.hello, session_id, p.resume_from # None)

Matching(peer, hello) ==
    {session_id \in DOMAIN pending :
        pending[session_id].peer = peer /\ pending[session_id].hello = hello}

\* Mutant: a repeated hello restarts the timeout.
RepeatServerHelloRefreshes(peer, hello) ==
    /\ CookieAccepted(peer, hello)
    /\ \E session_id \in Matching(peer, hello) :
           /\ pending' = [pending EXCEPT ![session_id].created_at = now]
           /\ ToClient({ServerHelloFrame(PendingTranscript(session_id))})
    /\ UNCHANGED session_ids

RepeatServerHello(peer, hello) ==
    /\ CookieAccepted(peer, hello)
    /\ \E session_id \in Matching(peer, hello) :
           ToClient({ServerHelloFrame(PendingTranscript(session_id))})
    /\ UNCHANGED <<pending, session_ids>>

\* Mutant: the limits are off by one.
HasPendingRoomOffByOne(peer) ==
    /\ Cardinality(DOMAIN pending) <= MaxPendingHandshakes
    /\ Cardinality({id \in DOMAIN pending : pending[id].peer = peer})
         <= MaxPendingHandshakesPerPeer

HasPendingRoom(peer) ==
    /\ Cardinality(DOMAIN pending) < MaxPendingHandshakes
    /\ Cardinality({id \in DOMAIN pending : pending[id].peer = peer})
         < MaxPendingHandshakesPerPeer

HoldsConversation(credential) ==
    LET old == credential.session_id
    IN  \/ /\ old \in DOMAIN sessions
           /\ credential.conversation \in DOMAIN sessions[old].conversations
           /\ sessions[old].credential_expires_at # None
        \/ /\ old \in DOMAIN resumable
           /\ credential.conversation \in DOMAIN resumable[old].conversations

\* Mutant: two handshakes may resume the same session.
ResumeFromUnfiltered(credential) ==
    IF /\ credential # None
       /\ CredentialIsValid(credential)
       /\ HoldsConversation(credential)
    THEN credential.session_id
    ELSE None

\* The session a hello resumes: its credential is valid, the session it
\* names still holds the conversation, and no other handshake resumes it.
ResumeFrom(credential) ==
    IF /\ credential # None
       /\ CredentialIsValid(credential)
       /\ HoldsConversation(credential)
       /\ \A id \in DOMAIN pending : pending[id].resume_from # credential.session_id
    THEN credential.session_id
    ELSE None

OpenPending(peer, hello) ==
    LET session_id == session_ids + 1
        resume_from == ResumeFrom(hello.resumption)
    IN  /\ session_ids < MaxSessionIds
        /\ session_ids' = session_id
        /\ pending' = Put(pending, session_id,
                          [peer |-> peer, created_at |-> now, hello |-> hello,
                           resume_from |-> resume_from])
        /\ ToClient({ServerHelloFrame(
                        Transcript(hello, session_id, resume_from # None))})

HandleClientHello(peer, hello) ==
    /\ AllowHandshakeAttempt(peer)
    /\ \/ SendHelloRetry(peer, hello)
       \/ RepeatServerHello(peer, hello)
       \/ /\ CookieAccepted(peer, hello)
          /\ Matching(peer, hello) = {}
          /\ \/ HasPendingRoom(peer) /\ OpenPending(peer, hello)
             \/ ~HasPendingRoom(peer) /\ ToClient({}) /\ UNCHANGED <<pending, session_ids>>
    /\ UNCHANGED <<sessions, resumable, server_ids, panicked, upstream, replies>>
-----------------------------------------------------------------------------
\* ClientFinish.

\* The acknowledgement is the first record of a session and is kept.
HandshakeAck(transcript) == Record("HandshakeAck", transcript, 0, None, None)

RepeatAck(peer, transcript) ==
    LET session_id == transcript.session_id
    IN  /\ session_id \in DOMAIN sessions
        /\ sessions[session_id].peer = peer
        /\ sessions[session_id].key = transcript
        /\ ToClient({HandshakeAck(transcript)})
        /\ UNCHANGED <<serverState, upstream, replies>>

\* The conversations of a resumed session, wherever it is kept.
Inherited(old) ==
    IF old \in DOMAIN sessions THEN sessions[old].conversations
    ELSE IF old \in DOMAIN resumable THEN resumable[old].conversations
    ELSE EmptyMap

\* Mutant: the stored sealer has not counted the acknowledgement.
NewServerSessionFreshSealer(peer, transcript, old) ==
    LET conversations == Inherited(old)
    IN  [peer |-> peer, key |-> transcript, next_packet_number |-> 0, replay |-> {},
         conversations |-> conversations, handles |-> NoHandles, resumed_from |-> old,
         credential_expires_at |-> IF DOMAIN conversations = {} THEN None
                                   ELSE now + ResumptionLifetime,
         last_activity |-> now]

\* Mutant: a session that inherits nothing counts as not resumed.
NewServerSessionByContent(peer, transcript, old) ==
    LET conversations == Inherited(old)
    IN  [peer |-> peer, key |-> [transcript EXCEPT !.resumed = DOMAIN conversations # {}],
         next_packet_number |-> 1, replay |-> {},
         conversations |-> conversations, handles |-> NoHandles, resumed_from |-> old,
         credential_expires_at |-> IF DOMAIN conversations = {} THEN None
                                   ELSE now + ResumptionLifetime,
         last_activity |-> now]

NewServerSession(peer, transcript, old) ==
    LET conversations == Inherited(old)
    IN  [peer |-> peer, key |-> transcript, next_packet_number |-> 1, replay |-> {},
         conversations |-> conversations, handles |-> NoHandles, resumed_from |-> old,
         credential_expires_at |-> IF DOMAIN conversations = {} THEN None
                                   ELSE now + ResumptionLifetime,
         last_activity |-> now]

\* Mutant: the resumed session is read and not removed.
SessionsKept(old) == sessions

SessionsLeft(old) == Without(sessions, {old})

\* The session is established.  A resumed one takes over the conversations
\* of the old session, which ends.
Establish(peer, transcript) ==
    LET session_id == transcript.session_id
        old == pending[session_id].resume_from
    IN  /\ session_id \in DOMAIN pending
        /\ pending[session_id].peer = peer
        /\ Cardinality(DOMAIN sessions) < MaxSessions \/ old \in DOMAIN sessions
        /\ transcript = PendingTranscript(session_id)
        /\ sessions' = Put(SessionsLeft(old), session_id,
                           NewServerSession(peer, transcript, old))
        /\ resumable' = IF old \in DOMAIN sessions THEN resumable
                        ELSE Without(resumable, {old})
        /\ pending' = Without(pending, {session_id})
        /\ ToClient({HandshakeAck(transcript)})
        /\ UNCHANGED <<buckets, session_ids, server_ids, panicked, upstream, replies>>

HandleClientFinish(peer, transcript) ==
    RepeatAck(peer, transcript) \/ Establish(peer, transcript)
-----------------------------------------------------------------------------
\* Protected records.

ServerOpens(peer, frame) ==
    /\ frame.type \in RecordTypes
    /\ frame.key.session_id \in DOMAIN sessions
    /\ sessions[frame.key.session_id].peer = peer
    /\ Opens(sessions[frame.key.session_id], frame)

Opened(frame) ==
    [MarkOpened(sessions[frame.key.session_id], frame) EXCEPT !.last_activity = now]

CommitSession(frame, new) ==
    sessions' = [sessions EXCEPT ![frame.key.session_id] = new]

\* A credential for a conversation the session inherited binds its handle.
BindsInherited(frame) ==
    LET s == Opened(frame)
    IN  /\ CredentialIsValid(frame.body)
        /\ s.resumed_from = frame.body.session_id
        /\ frame.body.conversation \in DOMAIN s.conversations
        /\ CanBind(s.handles, frame.handle, frame.body.conversation)

HandleResumeConversation(peer, frame) ==
    /\ frame.type = "ResumeConversation"
    /\ ServerOpens(peer, frame)
    /\ CommitSession(frame,
           IF BindsInherited(frame)
           THEN [Opened(frame) EXCEPT
                    !.handles = Bound(@, frame.handle, frame.body.conversation)]
           ELSE Opened(frame))
    /\ ToClient({})
    /\ UNCHANGED <<pending, resumable, buckets, session_ids, server_ids, panicked,
                   upstream, replies>>

\* Data on a handle the session does not know, and no room to open a
\* conversation for it: the record is refused after it was opened.
KnowsHandle(frame) == frame.handle \in DOMAIN Opened(frame).handles.by_handle

RefuseData(peer, frame) ==
    /\ frame.type = "Data"
    /\ ServerOpens(peer, frame)
    /\ ~KnowsHandle(frame)
    /\ Cardinality(DOMAIN Opened(frame).conversations) >= ServerMaxConversations
    /\ CommitSession(frame, Opened(frame))
    /\ ToClient({})
    /\ UNCHANGED <<pending, resumable, buckets, session_ids, server_ids, panicked,
                   upstream, replies>>

ConversationOf(frame) ==
    IF KnowsHandle(frame) THEN Opened(frame).handles.by_handle[frame.handle]
    ELSE server_ids + 1

\* The session once the conversation of the record is found or opened.
Touched(frame) ==
    LET id == ConversationOf(frame)
    IN  [Opened(frame) EXCEPT
            !.handles = IF KnowsHandle(frame) THEN @ ELSE Bound(@, frame.handle, id),
            !.conversations = Put(@, id, now)]

RefreshDue(s) ==
    \/ s.credential_expires_at = None
    \/ 2 * (s.credential_expires_at - now) <= ResumptionLifetime

\* The conversations that get a credential: all of them when one is due,
\* the new one otherwise.
ToCredit(frame) ==
    IF RefreshDue(Touched(frame)) THEN DOMAIN Touched(frame).conversations
    ELSE IF KnowsHandle(frame) THEN {}
    ELSE {ConversationOf(frame)}

\* The i-th credential in the order of the hash map.
CredentialRecord(s, order, i) ==
    Record("ResumptionCredential", s.key, s.next_packet_number + i - 1,
           s.handles.by_id[order[i]],
           Credential(s.key.session_id, order[i], ResumptionLifetime))

DeliverData(peer, frame) ==
    LET s == Touched(frame)
    IN  /\ frame.type = "Data"
        /\ ServerOpens(peer, frame)
        /\ KnowsHandle(frame)
             \/ Cardinality(DOMAIN Opened(frame).conversations) < ServerMaxConversations
        /\ ToCredit(frame) \subseteq DOMAIN s.handles.by_id
        /\ \E order \in SetToSeqs(ToCredit(frame)) :
               /\ CommitSession(frame, [s EXCEPT
                      !.next_packet_number = @ + Len(order),
                      !.credential_expires_at = IF RefreshDue(s) THEN now + ResumptionLifetime
                                                ELSE @])
               /\ ToClient({CredentialRecord(s, order, i) : i \in DOMAIN order})
        /\ server_ids' = IF KnowsHandle(frame) THEN server_ids ELSE server_ids + 1
        /\ upstream' = Append(upstream, [session_id |-> s.key.session_id,
                                         conversation |-> ConversationOf(frame),
                                         datagram |-> frame.body])
        /\ UNCHANGED <<pending, resumable, buckets, session_ids, panicked, replies>>

\* The refresh meets a conversation without a handle: expect fails.
RefreshPanics(peer, frame) ==
    /\ frame.type = "Data"
    /\ ServerOpens(peer, frame)
    /\ KnowsHandle(frame)
         \/ Cardinality(DOMAIN Opened(frame).conversations) < ServerMaxConversations
    /\ ~(ToCredit(frame) \subseteq DOMAIN Touched(frame).handles.by_id)
    /\ panicked' = TRUE
    /\ ToClient({})
    /\ UNCHANGED <<pending, sessions, resumable, buckets, session_ids, server_ids,
                   upstream, replies>>

HandleRecord(peer, frame) ==
    \/ HandleResumeConversation(peer, frame)
    \/ RefuseData(peer, frame)
    \/ DeliverData(peer, frame)
    \/ RefreshPanics(peer, frame)

ServerHandleTunnel(peer, frame) ==
    \/ frame.type = "ClientHello" /\ HandleClientHello(peer, frame.hello)
    \/ frame.type = "ClientFinish" /\ HandleClientFinish(peer, frame.transcript)
    \/ HandleRecord(peer, frame)
-----------------------------------------------------------------------------
\* Datagrams from upstream, close and timers.

\* The n-th datagram upstream sends, on a conversation, stands for itself.
HandleUpstream(session_id, id) ==
    LET s == sessions[session_id]
    IN  /\ Len(replies) < MaxReplies
        /\ id \in DOMAIN s.handles.by_id
        /\ replies' = Append(replies, id)
        /\ sessions' = [sessions EXCEPT ![session_id].last_activity = now,
                                        ![session_id].next_packet_number = @ + 1]
        /\ ToClient({Record("Data", s.key, s.next_packet_number, s.handles.by_id[id],
                            [conversation |-> id, number |-> Len(replies) + 1])})
        /\ UNCHANGED <<pending, resumable, buckets, session_ids, server_ids, panicked, upstream>>

\* Mutant: the handles stay bound.
DropConversationsOnly(s, ids) == [s EXCEPT !.conversations = Without(@, ids)]

DropConversations(s, ids) ==
    [s EXCEPT !.conversations = Without(@, ids), !.handles = RemoveIds(@, ids)]

ServerClose(session_id, id) ==
    /\ UpstreamCloses
    /\ id \in DOMAIN sessions[session_id].conversations
    /\ sessions' = [sessions EXCEPT ![session_id] = DropConversations(@, {id})]
    /\ ToClient({})
    /\ UNCHANGED <<pending, resumable, buckets, session_ids, server_ids, panicked,
                   upstream, replies>>

IdleConversations(s) ==
    {id \in DOMAIN s.conversations : now - s.conversations[id] >= ServerConversationIdleTimeout}

Live ==
    [id \in DOMAIN sessions |-> DropConversations(sessions[id], IdleConversations(sessions[id]))]

IdleSessions == {id \in DOMAIN Live : now - Live[id].last_activity >= SessionIdleTimeout}

\* Mutant: an idle session is kept although it has no conversation left.
RetiredWithoutConversations ==
    [id \in DOMAIN resumable \cup IdleSessions |->
        IF id \in IdleSessions THEN [conversations |-> Live[id].conversations,
                                     expires_at |-> now + ResumptionLifetime]
        ELSE resumable[id]]

\* The sessions kept for resumption, with the idle ones that still have
\* conversations.
Retired ==
    LET kept == {id \in IdleSessions : DOMAIN Live[id].conversations # {}}
    IN  [id \in DOMAIN resumable \cup kept |->
            IF id \in kept THEN [conversations |-> Live[id].conversations,
                                 expires_at |-> now + ResumptionLifetime]
            ELSE resumable[id]]

\* TimeAdvanced: pending handshakes, then conversations, then sessions, then
\* sessions kept for resumption, then rate buckets.
ServerExpire ==
    /\ pending' = Without(pending, {id \in DOMAIN pending :
                                       now - pending[id].created_at >= PendingTimeout})
    /\ sessions' = Without(Live, IdleSessions)
    /\ resumable' = Without(Retired, {id \in DOMAIN Retired : now >= Retired[id].expires_at})
    /\ buckets' = Retained(buckets, now)
    /\ ToClient({})
    /\ UNCHANGED <<session_ids, server_ids, panicked, upstream, replies>>

ServerNext ==
    /\ ~panicked
    /\ \/ \E packet \in c2s : ServerHandleTunnel(packet.from, packet.frame)
       \/ \E session_id \in DOMAIN sessions :
              \/ \E id \in DOMAIN sessions[session_id].handles.by_id :
                     HandleUpstream(session_id, id)
              \/ \E id \in DOMAIN sessions[session_id].conversations :
                     ServerClose(session_id, id)
       \/ ServerExpire
=============================================================================
