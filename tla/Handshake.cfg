SPECIFICATION FairSpec
CONSTANTS
    None = None
    Paths = {p1}
    ReplayWindowSize = 2
    MaxNow = 3
    LocalPeers = {a}
    HandshakeTimeout = 2
    HandshakeRetryInterval = 1
    HandshakeMaxAttempts = 3
    SessionTimeout = 1
    ConversationIdleTimeout = 9
    MaxConversations = 2
    ReconnectQueueCapacity = 1
    ReconnectQueueTimeout = 2
    HostHorizon = 1
    HostCloses = FALSE
    MaxHellos = 2
    MaxDatagrams = 1
    RequireHandshakeCookie = TRUE
    HandshakeCookieLifetime = 2
    PendingTimeout = 1
    SessionIdleTimeout = 9
    ServerConversationIdleTimeout = 9
    ResumptionLifetime = 4
    MaxPendingHandshakes = 2
    MaxPendingHandshakesPerPeer = 2
    MaxSessions = 1
    ServerMaxConversations = 2
    RateLimitBurst = 2
    RateRefillInterval = 1
    UpstreamCloses = FALSE
    MaxSessionIds = 2
    MaxReplies = 0
    a = a
    p1 = p1
PROPERTIES
    HandshakeEnds
    PendingEnds
