SPECIFICATION Spec
CONSTANTS
    None = None
    Paths = {p1}
    ReplayWindowSize = 2
    MaxNow = 1
    LocalPeers = {a}
    HandshakeTimeout = 2
    HandshakeRetryInterval = 1
    HandshakeMaxAttempts = 2
    SessionTimeout = 9
    ConversationIdleTimeout = 9
    MaxConversations = 2
    ReconnectQueueCapacity = 1
    ReconnectQueueTimeout = 2
    HostHorizon = 9
    HostCloses = FALSE
    MaxHellos = 3
    MaxDatagrams = 1
    RequireHandshakeCookie = FALSE
    HandshakeCookieLifetime = 1
    PendingTimeout = 2
    SessionIdleTimeout = 9
    ServerConversationIdleTimeout = 9
    ResumptionLifetime = 4
    MaxPendingHandshakes = 2
    MaxPendingHandshakesPerPeer = 2
    MaxSessions = 1
    ServerMaxConversations = 2
    RateLimitBurst = 9
    RateRefillInterval = 9
    UpstreamCloses = FALSE
    MaxSessionIds = 3
    MaxReplies = 0
    a = a
    p1 = p1
PROPERTIES
    CredentialHonoured
