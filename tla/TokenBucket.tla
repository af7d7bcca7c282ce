---------------------------- MODULE TokenBucket -----------------------------
(***************************************************************************)
(* HandshakeRateBucket of engine.rs: how many ClientHello frames of a     *)
(* peer the server still looks at.  A bucket is created full, gains one   *)
(* token for each whole interval since it was last refilled, and is       *)
(* forgotten when it must be full again.                                  *)
(***************************************************************************)
EXTENDS Integers, FiniteSets, Maps

CONSTANTS RateLimitBurst,        \* handshake_rate_limit_burst
          RateRefillInterval,    \* handshake_rate_refill_interval
          MaxPendingHandshakes   \* max_pending_handshakes, which bounds the table

ASSUME RateAssumption ==
    /\ RateLimitBurst \in Nat \ {0}
    /\ RateRefillInterval \in Nat \ {0}
    /\ MaxPendingHandshakes \in Nat \ {0}

FreshBucket(now) == [tokens |-> RateLimitBurst, last_refill_at |-> now]

Refill(bucket, now) ==
    LET count == (now - bucket.last_refill_at) \div RateRefillInterval
    IN  IF count = 0 THEN bucket
        ELSE [tokens |-> IF bucket.tokens + count < RateLimitBurst
                         THEN bucket.tokens + count ELSE RateLimitBurst,
              last_refill_at |-> now]

\* The bucket of a peer once it is found or created, and refilled.
Refilled(buckets, peer, now) ==
    Refill(IF peer \in DOMAIN buckets THEN buckets[peer] ELSE FreshBucket(now), now)

Admits(buckets, peer, now) ==
    /\ peer \in DOMAIN buckets \/ Cardinality(DOMAIN buckets) < MaxPendingHandshakes
    /\ Refilled(buckets, peer, now).tokens > 0

Charged(buckets, peer, now) ==
    Put(buckets, peer, [Refilled(buckets, peer, now) EXCEPT !.tokens = @ - 1])

\* Mutant: a bucket is forgotten after the time of one token.
RetainedOneInterval(buckets, now) ==
    Without(buckets, {peer \in DOMAIN buckets :
                         now - buckets[peer].last_refill_at >= RateRefillInterval})

\* What expire keeps.
Retained(buckets, now) ==
    Without(buckets, {peer \in DOMAIN buckets :
                         now - buckets[peer].last_refill_at
                           >= RateRefillInterval * RateLimitBurst})
=============================================================================
