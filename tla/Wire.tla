-------------------------------- MODULE Wire --------------------------------
(***************************************************************************)
(* What the client and the server engine share: the clock, the frames     *)
(* they exchange and the network that carries them.                       *)
(*                                                                         *)
(* The network keeps every frame ever sent and may deliver any of them at *)
(* any time: a frame is reordered, duplicated or, if it is never          *)
(* delivered, lost.  Cryptography is perfect: a cookie, a credential, a   *)
(* tag or a record exists only if an engine made it.  A session key is    *)
(* the transcript it is derived from.  Random values (handshake ids,      *)
(* nonces, session and conversation ids) never collide: each is the next  *)
(* value of a counter.                                                    *)
(***************************************************************************)
EXTENDS Integers, FiniteSets, Sequences, Maps, ReplayFilter

CONSTANTS None,              \* Option::None
          Paths,             \* PeerIds under which the server sees the client
          ReplayWindowSize,  \* EngineConfig::replay_window_size
          MaxNow             \* bound: the clock stops here

ASSUME WireAssumption == ReplayWindowSize \in Nat \ {0} /\ MaxNow \in Nat

VARIABLES now,               \* the monotonic clock both engines read
          path,              \* the PeerId of the client's current path
          c2s,               \* frames sent by the client, with their path
          s2c                \* frames sent by the server

network == <<now, path, c2s, s2c>>

-----------------------------------------------------------------------------
\* Handshake messages.  A handshake id stands for the id, the client nonce
\* and the cipher suite of one generated hello.
ClientHello(id, resumption) == [id |-> id, cookie |-> None, resumption |-> resumption]
WithCookie(hello, cookie) == [hello EXCEPT !.cookie = cookie]

\* The transcript that authenticates a handshake and seeds its keys: the
\* whole hello, cookie included, the session id and the resumed flag.
Transcript(hello, session_id, resumed) ==
    [hello |-> hello, session_id |-> session_id, resumed |-> resumed]

HelloFrame(hello) == [type |-> "ClientHello", hello |-> hello]
RetryFrame(id, cookie) == [type |-> "HelloRetry", id |-> id, cookie |-> cookie]
ServerHelloFrame(transcript) == [type |-> "ServerHello", transcript |-> transcript]
FinishFrame(transcript) == [type |-> "ClientFinish", transcript |-> transcript]

\* The stateless cookie names what its tag covers.
Cookie(peer, id) == [issued_at |-> now, peer |-> peer, id |-> id]
CookieIsValid(hello, peer, lifetime) ==
    /\ hello.cookie # None
    /\ now - hello.cookie.issued_at <= lifetime
    /\ hello.cookie.peer = peer
    /\ hello.cookie.id = hello.id

\* A resumption credential names the session and conversation it restores.
Credential(session_id, conversation, lifetime) ==
    [session_id |-> session_id, conversation |-> conversation, expires_at |-> now + lifetime]
CredentialIsValid(credential) == now <= credential.expires_at
-----------------------------------------------------------------------------
\* The record layer.  A sealer holds its next packet number; an opener the
\* packet numbers it accepted, which ReplayWindow keeps as bits.
Record(type, key, packet_number, handle, body) ==
    [type |-> type, key |-> key, packet_number |-> packet_number,
     handle |-> handle, body |-> body]

\* Close records are protected too; no engine sends one, and both open and
\* ignore what they get.
RecordTypes == {"HandshakeAck", "Data", "ResumeConversation", "ResumptionCredential"}

Opens(session, frame) ==
    /\ frame.type \in RecordTypes
    /\ frame.key = session.key
    /\ FilterVerdict(ReplayWindowSize, session.replay, frame.packet_number) = "Ok"

\* Mutant: the packet number is not recorded.
MarkNothing(session, frame) == session

MarkOpened(session, frame) ==
    [session EXCEPT !.replay = @ \cup {frame.packet_number}]
-----------------------------------------------------------------------------
NetworkInit ==
    /\ now = 0
    /\ path \in Paths
    /\ c2s = {}
    /\ s2c = {}

ToServer(frames) ==
    /\ c2s' = c2s \cup {[from |-> path, frame |-> frame] : frame \in frames}
    /\ UNCHANGED <<now, path, s2c>>

ToClient(frames) ==
    /\ s2c' = s2c \cup frames
    /\ UNCHANGED <<now, path, c2s>>

Tick ==
    /\ now < MaxNow
    /\ now' = now + 1
    /\ UNCHANGED <<path, c2s, s2c>>

\* The client's address or port, as the server sees it, changes.
ChangePath ==
    /\ path' \in Paths \ {path}
    /\ UNCHANGED <<now, c2s, s2c>>
=============================================================================
