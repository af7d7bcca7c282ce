SPECIFICATION Spec
CONSTANTS
    RateLimitBurst = 2
    RateRefillInterval = 3
    MaxPendingHandshakes = 1
    Peers = {p, q}
    MaxNow = 13
    MaxAdmitted = 5
    p = p
    q = q
SYMMETRY Symmetry
INVARIANTS
    RateBounded
