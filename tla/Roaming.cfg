SPECIFICATION Spec
CONSTANTS
    None = None
    Paths = {p1, p2}
    ReplayWindowSize = 2
    MaxNow = 1
    LocalPeers = {a}
    HandshakeTimeout = 2
    HandshakeRetryInterval = 1
    HandshakeMaxAttempts = 2
    SessionTimeout = 1
    ConversationIdleTimeout = 9
    MaxConversations = 2
    ReconnectQueueCapacity = 1
    ReconnectQueueTimeout = 1
    HostHorizon = 9
    HostCloses = FALSE
    MaxHellos = 2
    MaxDatagrams = 2
    RequireHandshakeCookie = FALSE
    HandshakeCookieLifetime = 1
    PendingTimeout = 9
    SessionIdleTimeout = 9
    ServerConversationIdleTimeout = 9
    ResumptionLifetime = 4
    MaxPendingHandshakes = 2
    MaxPendingHandshakesPerPeer = 1
    MaxSessions = 1
    ServerMaxConversations = 2
    RateLimitBurst = 3
    RateRefillInterval = 9
    UpstreamCloses = FALSE
    MaxSessionIds = 3
    MaxReplies = 0
    a = a
    p1 = p1
    p2 = p2
SYMMETRY Symmetry
INVARIANTS
    TypeOK
    SessionIdsExclusive
    WithinLimits
    ClientNonceUnique
    DatagramsAccountedFor
