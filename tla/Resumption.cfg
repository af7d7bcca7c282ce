SPECIFICATION Spec
CONSTANTS
    None = None
    Paths = {p1}
    ReplayWindowSize = 2
    MaxNow = 0
    LocalPeers = {a, b, c}
    HandshakeTimeout = 2
    HandshakeRetryInterval = 1
    HandshakeMaxAttempts = 2
    SessionTimeout = 1
    ConversationIdleTimeout = 9
    MaxConversations = 2
    ReconnectQueueCapacity = 2
    ReconnectQueueTimeout = 2
    HostHorizon = 9
    HostCloses = FALSE
    MaxHellos = 3
    MaxDatagrams = 3
    RequireHandshakeCookie = FALSE
    HandshakeCookieLifetime = 1
    PendingTimeout = 9
    SessionIdleTimeout = 9
    ServerConversationIdleTimeout = 9
    ResumptionLifetime = 2
    MaxPendingHandshakes = 2
    MaxPendingHandshakesPerPeer = 2
    MaxSessions = 2
    ServerMaxConversations = 2
    RateLimitBurst = 3
    RateRefillInterval = 9
    UpstreamCloses = FALSE
    MaxSessionIds = 3
    MaxReplies = 1
    a = a
    b = b
    c = c
    p1 = p1
SYMMETRY Symmetry
INVARIANTS
    NoCrossTalk
    WithinLimits
    SentInOrder
    DeliveredOnce
    ServerNonceUnique
