SPECIFICATION Spec
CONSTANTS
    None = None
    Paths = {p1}
    ReplayWindowSize = 2
    MaxNow = 2
    LocalPeers = {a}
    HandshakeTimeout = 2
    HandshakeRetryInterval = 1
    HandshakeMaxAttempts = 2
    SessionTimeout = 1
    ConversationIdleTimeout = 9
    MaxConversations = 2
    ReconnectQueueCapacity = 1
    ReconnectQueueTimeout = 2
    HostHorizon = 9
    HostCloses = FALSE
    MaxHellos = 2
    MaxDatagrams = 3
    RequireHandshakeCookie = FALSE
    HandshakeCookieLifetime = 1
    PendingTimeout = 2
    SessionIdleTimeout = 9
    ServerConversationIdleTimeout = 9
    ResumptionLifetime = 2
    MaxPendingHandshakes = 2
    MaxPendingHandshakesPerPeer = 2
    MaxSessions = 1
    ServerMaxConversations = 2
    RateLimitBurst = 9
    RateRefillInterval = 9
    UpstreamCloses = FALSE
    MaxSessionIds = 2
    MaxReplies = 0
    a = a
    p1 = p1
INVARIANTS
    NoPanic
