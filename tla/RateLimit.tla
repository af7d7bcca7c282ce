----------------------------- MODULE RateLimit ------------------------------
(***************************************************************************)
(* The handshake rate limiter of the server on its own: hellos of several *)
(* peers, the timer, and a history of what was admitted.  A hello that is *)
(* refused leaves the buckets as they are and is no step.                 *)
(***************************************************************************)
EXTENDS TokenBucket, Sequences

CONSTANTS Peers, MaxNow, MaxAdmitted   \* bounds on time and on each history

VARIABLES now, buckets,
          admitted                     \* history: peer -> times of its hellos

vars == <<now, buckets, admitted>>

Init ==
    /\ now = 0
    /\ buckets = EmptyMap
    /\ admitted = [peer \in Peers |-> <<>>]

Hello(peer) ==
    /\ Len(admitted[peer]) < MaxAdmitted
    /\ Admits(buckets, peer, now)
    /\ buckets' = Charged(buckets, peer, now)
    /\ admitted' = [admitted EXCEPT ![peer] = Append(@, now)]
    /\ UNCHANGED now

Expire ==
    /\ buckets' = Retained(buckets, now)
    /\ UNCHANGED <<now, admitted>>

Tick ==
    /\ now < MaxNow
    /\ now' = now + 1
    /\ UNCHANGED <<buckets, admitted>>

Next == (\E peer \in Peers : Hello(peer)) \/ Expire \/ Tick

Spec == Init /\ [][Next]_vars
-----------------------------------------------------------------------------
\* The types of the buckets: the table is bounded, a bucket holds at most a
\* burst and was refilled in the past.
TypeOK ==
    /\ now \in Nat
    /\ DOMAIN buckets \subseteq Peers
    /\ Cardinality(DOMAIN buckets) <= MaxPendingHandshakes
    /\ \A peer \in DOMAIN buckets :
           /\ buckets[peer].tokens \in 0 .. RateLimitBurst
           /\ buckets[peer].last_refill_at \in 0 .. now

\* A peer is never admitted more often than one burst plus one hello per
\* refill interval, however the timer forgets and recreates its bucket.
RateBounded ==
    \A peer \in Peers :
        RateRefillInterval * Len(admitted[peer]) <= RateRefillInterval * RateLimitBurst + now
=============================================================================
