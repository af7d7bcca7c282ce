SPECIFICATION Spec
CONSTANTS
    None = None
    Paths = {p1}
    ReplayWindowSize = 2
    MaxNow = 2
    LocalPeers = {a}
    HandshakeTimeout = 2
    HandshakeRetryInterval = 1
    HandshakeMaxAttempts = 2
    SessionTimeout = 2
    ConversationIdleTimeout = 2
    MaxConversations = 2
    ReconnectQueueCapacity = 1
    ReconnectQueueTimeout = 2
    HostHorizon = 9
    HostCloses = TRUE
    MaxHellos = 2
    MaxDatagrams = 1
    RequireHandshakeCookie = FALSE
    HandshakeCookieLifetime = 1
    PendingTimeout = 2
    SessionIdleTimeout = 1
    ServerConversationIdleTimeout = 2
    ResumptionLifetime = 1
    MaxPendingHandshakes = 2
    MaxPendingHandshakesPerPeer = 2
    MaxSessions = 2
    ServerMaxConversations = 2
    RateLimitBurst = 9
    RateRefillInterval = 9
    UpstreamCloses = TRUE
    MaxSessionIds = 2
    MaxReplies = 1
    a = a
    p1 = p1
INVARIANTS
    ClientHandlesConsistent
    ServerHandlesConsistent
    KeysAgree
    ConversationOwnedOnce
PROPERTIES
    ImplementsRegistry
