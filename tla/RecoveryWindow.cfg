SPECIFICATION Spec
CONSTANTS
    None = None
    Paths = {p1}
    ReplayWindowSize = 2
    MaxNow = 3
    LocalPeers = {a}
    HandshakeTimeout = 2
    HandshakeRetryInterval = 1
    HandshakeMaxAttempts = 2
    SessionTimeout = 9
    ConversationIdleTimeout = 9
    MaxConversations = 2
    ReconnectQueueCapacity = 1
    ReconnectQueueTimeout = 9
    HostHorizon = 9
    HostCloses = FALSE
    MaxHellos = 1
    MaxDatagrams = 1
    RequireHandshakeCookie = FALSE
    HandshakeCookieLifetime = 1
    PendingTimeout = 9
    SessionIdleTimeout = 3
    ServerConversationIdleTimeout = 2
    ResumptionLifetime = 1
    MaxPendingHandshakes = 2
    MaxPendingHandshakesPerPeer = 2
    MaxSessions = 1
    ServerMaxConversations = 2
    RateLimitBurst = 9
    RateRefillInterval = 9
    UpstreamCloses = FALSE
    MaxSessionIds = 1
    MaxReplies = 0
    a = a
    p1 = p1
PROPERTIES
    RetainedAfterIdleClose
