SPECIFICATION FairSpec
CONSTANTS
    SessionIds = {1, 2}
    MaxConversations = 2
    MaxReplies = 2
    MaxSocketErrors = 1
INVARIANTS
    RoutesMirrorEngine
    OneReceiverPerRoute
    DeadReceiversCounted
    RepliesStayWithConversation
PROPERTIES
    MovedAtomically
    StopEndsReceivers
CHECK_DEADLOCK FALSE
