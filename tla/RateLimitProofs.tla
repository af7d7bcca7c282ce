-------------------------- MODULE RateLimitProofs ---------------------------
(***************************************************************************)
(* The bound on admitted hellos, for every burst, interval, table size    *)
(* and set of peers.  The invariant counts the tokens still in a bucket   *)
(* with the hellos already admitted: a refill buys tokens with the time   *)
(* since the last one, and a bucket is forgotten only when the time since *)
(* its last refill pays for a full one.                                   *)
(***************************************************************************)
EXTENDS RateLimit, FiniteSetTheorems, TLAPS

Bucket == [tokens : 0 .. RateLimitBurst, last_refill_at : Nat]

Types ==
    /\ now \in Nat
    /\ DOMAIN buckets \subseteq Peers
    /\ buckets \in [DOMAIN buckets -> Bucket]
    /\ \A peer \in DOMAIN buckets : buckets[peer].last_refill_at <= now
    /\ admitted \in [Peers -> Seq(Nat)]

Paid(peer) ==
    IF peer \in DOMAIN buckets
    THEN RateRefillInterval * (Len(admitted[peer]) + buckets[peer].tokens)
           <= RateRefillInterval * RateLimitBurst + buckets[peer].last_refill_at
    ELSE RateRefillInterval * Len(admitted[peer]) <= now

IInv == Types /\ \A peer \in Peers : Paid(peer)

\* Whole intervals fit into the time they were counted in.
LEMMA WholeIntervals ==
    ASSUME NEW d \in Nat
    PROVE  /\ d \div RateRefillInterval \in Nat
           /\ RateRefillInterval * (d \div RateRefillInterval) <= d
BY RateAssumption

\* A refilled bucket is a bucket, was refilled in the past, and has bought
\* its new tokens.
LEMMA RefillPays ==
    ASSUME NEW b \in Bucket, NEW t \in Nat, b.last_refill_at <= t
    PROVE  LET r == Refill(b, t)
           IN  /\ r \in Bucket
               /\ r.last_refill_at <= t
               /\ RateRefillInterval * r.tokens - r.last_refill_at
                    <= RateRefillInterval * b.tokens - b.last_refill_at
<1> DEFINE d == t - b.last_refill_at
           count == d \div RateRefillInterval
           r == Refill(b, t)
<1>1. d \in Nat /\ b.tokens \in 0 .. RateLimitBurst /\ b.last_refill_at \in Nat
  BY DEF Bucket
<1>2. count \in Nat /\ RateRefillInterval * count <= d
  BY <1>1, WholeIntervals
<1>3. CASE count = 0
  BY <1>3, <1>1, RateAssumption DEF Refill
<1>4. CASE count # 0
  <2> DEFINE n == IF b.tokens + count < RateLimitBurst
                  THEN b.tokens + count ELSE RateLimitBurst
  <2>1. r = [tokens |-> n, last_refill_at |-> t]
    BY <1>4 DEF Refill
  <2>2. n \in 0 .. RateLimitBurst /\ n <= b.tokens + count
    BY <1>1, <1>2, RateAssumption
  <2>3. RateRefillInterval * n <= RateRefillInterval * b.tokens + RateRefillInterval * count
    <3> HIDE DEF n, count, d
    <3> QED BY <2>2, <1>1, <1>2, RateAssumption
  <2>4. RateRefillInterval * n - t <= RateRefillInterval * b.tokens - b.last_refill_at
    <3>1. d = t - b.last_refill_at
      OBVIOUS
    <3>2. RateRefillInterval * n \in Int /\ RateRefillInterval * b.tokens \in Int
          /\ RateRefillInterval * count \in Int
      BY <1>1, <1>2, <2>2, RateAssumption
    <3> HIDE DEF n, count, d
    <3> QED BY <2>3, <1>1, <1>2, <3>1, <3>2
  <2> HIDE DEF n, r
  <2>5. r \in Bucket
    BY <2>1, <2>2 DEF Bucket
  <2> QED BY <2>1, <2>4, <2>5 DEF r
<1> QED BY <1>2, <1>3, <1>4

\* A hello that is admitted spends the token it was admitted for.
LEMMA HelloPays ==
    ASSUME IInv, NEW peer \in Peers, Hello(peer)
    PROVE  IInv'
<1> DEFINE b == IF peer \in DOMAIN buckets THEN buckets[peer] ELSE FreshBucket(now)
           r == Refill(b, now)
           spent == [r EXCEPT !.tokens = @ - 1]
<1>0. /\ now \in Nat /\ DOMAIN buckets \subseteq Peers
      /\ buckets \in [DOMAIN buckets -> Bucket]
      /\ \A q \in DOMAIN buckets : buckets[q].last_refill_at <= now
      /\ admitted \in [Peers -> Seq(Nat)]
      /\ \A q \in Peers : Paid(q)
  BY DEF IInv, Types
<1>1. b \in Bucket /\ b.last_refill_at <= now
  BY <1>0, RateAssumption DEF Bucket, FreshBucket
<1>2. /\ r \in Bucket /\ r.last_refill_at <= now
      /\ RateRefillInterval * r.tokens - r.last_refill_at
           <= RateRefillInterval * b.tokens - b.last_refill_at
  <2> HIDE DEF b
  <2> QED BY <1>0, <1>1, RefillPays
<1>3. /\ r.tokens > 0 /\ buckets' = Put(buckets, peer, spent) /\ now' = now
      /\ admitted' = [admitted EXCEPT ![peer] = Append(@, now)]
  BY DEF Hello, Admits, Charged, Refilled
<1> HIDE DEF r
<1>4. /\ spent \in Bucket /\ spent.tokens = r.tokens - 1
      /\ spent.last_refill_at = r.last_refill_at
  <2>1. r = [tokens |-> r.tokens, last_refill_at |-> r.last_refill_at]
    BY <1>2 DEF Bucket
  <2>2. r.tokens \in 1 .. RateLimitBurst /\ r.last_refill_at \in Nat
    BY <1>2, <1>3, RateAssumption DEF Bucket
  <2>3. spent = [tokens |-> r.tokens - 1, last_refill_at |-> r.last_refill_at]
    BY <2>1
  <2>4. r.tokens - 1 \in 0 .. RateLimitBurst
    BY <2>2, RateAssumption
  <2> HIDE DEF spent
  <2> QED BY <2>2, <2>3, <2>4 DEF Bucket
<1> HIDE DEF spent
<1>5. /\ DOMAIN buckets' = DOMAIN buckets \cup {peer}
      /\ buckets' \in [DOMAIN buckets' -> Bucket]
      /\ buckets'[peer] = spent
      /\ \A q \in DOMAIN buckets : q # peer => buckets'[q] = buckets[q]
  BY <1>0, <1>3, <1>4 DEF Put
<1>6. /\ admitted' \in [Peers -> Seq(Nat)]
      /\ Len(admitted'[peer]) = Len(admitted[peer]) + 1
      /\ \A q \in Peers : q # peer => admitted'[q] = admitted[q]
  BY <1>0, <1>3
<1>7. Types'
  BY <1>0, <1>2, <1>3, <1>4, <1>5, <1>6 DEF Types
<1>8. RateRefillInterval * (Len(admitted[peer]) + b.tokens)
        <= RateRefillInterval * RateLimitBurst + b.last_refill_at
  <2>1. CASE peer \in DOMAIN buckets
    BY <1>0, <2>1 DEF Paid
  <2>2. CASE peer \notin DOMAIN buckets
    <3>1. b.tokens = RateLimitBurst /\ b.last_refill_at = now
      BY <2>2 DEF FreshBucket
    <3>2. RateRefillInterval * Len(admitted[peer]) <= now
      BY <1>0, <2>2 DEF Paid
    <3>3. Len(admitted[peer]) \in Nat /\ now \in Nat
      BY <1>0
    <3> HIDE DEF b
    <3> QED BY <3>1, <3>2, <3>3, RateAssumption
  <2> QED BY <2>1, <2>2
<1>9. RateRefillInterval * (Len(admitted'[peer]) + spent.tokens)
        <= RateRefillInterval * RateLimitBurst + spent.last_refill_at
  <2>1. Len(admitted[peer]) \in Nat /\ b.tokens \in Nat /\ r.tokens \in Nat
        /\ b.last_refill_at \in Nat /\ r.last_refill_at \in Nat
    BY <1>0, <1>1, <1>2, RateAssumption DEF Bucket
  <2>2. Len(admitted'[peer]) + spent.tokens = Len(admitted[peer]) + r.tokens
    BY <1>4, <1>6, <2>1
  <2> HIDE DEF b
  <2> DEFINE A == RateRefillInterval * Len(admitted[peer])
             B == RateRefillInterval * r.tokens
             C == RateRefillInterval * b.tokens
             K == RateRefillInterval * RateLimitBurst
  <2>3. RateRefillInterval * (Len(admitted'[peer]) + spent.tokens) = A + B
    BY <2>1, <2>2, RateAssumption
  <2>4. RateRefillInterval * (Len(admitted[peer]) + b.tokens) = A + C
    BY <2>1, RateAssumption
  <2>5. A \in Int /\ B \in Int /\ C \in Int /\ K \in Int
    BY <2>1, RateAssumption
  <2>6. A + C <= K + b.last_refill_at /\ B - r.last_refill_at <= C - b.last_refill_at
    BY <1>2, <1>8, <2>4
  <2> HIDE DEF A, B, C, K
  <2>7. A + B <= K + r.last_refill_at
    BY <2>1, <2>5, <2>6
  <2> QED BY <1>4, <2>3, <2>7 DEF K
<1>10. ASSUME NEW q \in Peers PROVE Paid(q)'
  <2>1. CASE q = peer
    BY <2>1, <1>5, <1>9 DEF Paid
  <2>2. CASE q # peer
    BY <2>2, <1>0, <1>3, <1>5, <1>6 DEF Paid
  <2> QED BY <2>1, <2>2
<1> QED BY <1>7, <1>10 DEF IInv

\* A bucket that is forgotten has been paid for in full.
LEMMA ExpirePays ==
    ASSUME IInv, Expire
    PROVE  IInv'
<1>0. /\ now \in Nat /\ DOMAIN buckets \subseteq Peers
      /\ buckets \in [DOMAIN buckets -> Bucket]
      /\ \A q \in DOMAIN buckets : buckets[q].last_refill_at <= now
      /\ admitted \in [Peers -> Seq(Nat)]
      /\ \A q \in Peers : Paid(q)
  BY DEF IInv, Types
<1> DEFINE gone == {peer \in DOMAIN buckets : now - buckets[peer].last_refill_at
                                               >= RateRefillInterval * RateLimitBurst}
<1>1. buckets' = Without(buckets, gone) /\ now' = now /\ admitted' = admitted
  BY DEF Expire, Retained
<1>2. /\ DOMAIN buckets' = DOMAIN buckets \ gone
      /\ buckets' \in [DOMAIN buckets' -> Bucket]
      /\ \A peer \in DOMAIN buckets' : buckets'[peer] = buckets[peer]
  BY <1>0, <1>1 DEF Without
<1>3. Types'
  BY <1>0, <1>1, <1>2 DEF Types
<1>4. ASSUME NEW q \in Peers PROVE Paid(q)'
  <2>1. CASE q \notin gone
    BY <2>1, <1>0, <1>1, <1>2 DEF Paid
  <2>2. CASE q \in gone
    <3> DEFINE n == Len(admitted[q])
               k == buckets[q].tokens
               t == buckets[q].last_refill_at
    <3>1. n \in Nat /\ k \in Nat /\ t \in Nat
      BY <1>0, <2>2, RateAssumption DEF Bucket
    <3>2. /\ RateRefillInterval * (n + k) <= RateRefillInterval * RateLimitBurst + t
          /\ now - t >= RateRefillInterval * RateLimitBurst
      BY <1>0, <2>2 DEF Paid
    <3>3. RateRefillInterval * n <= now
      <4> HIDE DEF n, k, t
      <4>1. RateRefillInterval * n <= RateRefillInterval * (n + k)
        BY <3>1, RateAssumption
      <4>2. /\ RateRefillInterval * n \in Int /\ RateRefillInterval * (n + k) \in Int
            /\ RateRefillInterval * RateLimitBurst \in Int
        BY <3>1, RateAssumption
      <4> QED BY <1>0, <3>1, <3>2, <4>1, <4>2
    <3> QED BY <3>3, <2>2, <1>1, <1>2 DEF Paid
  <2> QED BY <2>1, <2>2
<1> QED BY <1>3, <1>4 DEF IInv

\* The table of buckets stays within its limit.
TableBounded ==
    IsFiniteSet(DOMAIN buckets) /\ Cardinality(DOMAIN buckets) <= MaxPendingHandshakes

LEMMA TableStaysBounded ==
    ASSUME TableBounded, [Next]_vars
    PROVE  TableBounded'
<1>1. ASSUME NEW peer \in Peers, Hello(peer) PROVE TableBounded'
  <2>1. DOMAIN buckets' = DOMAIN buckets \cup {peer}
    BY <1>1 DEF Hello, Charged, Put
  <2>2. CASE peer \in DOMAIN buckets
    <3>1. DOMAIN buckets' = DOMAIN buckets
      BY <2>1, <2>2
    <3> QED BY <3>1 DEF TableBounded
  <2>3. CASE peer \notin DOMAIN buckets
    <3>1. Cardinality(DOMAIN buckets) < MaxPendingHandshakes
      BY <1>1, <2>3 DEF Hello, Admits
    <3>2. /\ IsFiniteSet(DOMAIN buckets \cup {peer})
          /\ Cardinality(DOMAIN buckets \cup {peer}) = Cardinality(DOMAIN buckets) + 1
      BY <2>3, FS_AddElement DEF TableBounded
    <3>3. Cardinality(DOMAIN buckets) \in Nat
      BY FS_CardinalityType DEF TableBounded
    <3> QED BY <2>1, <3>1, <3>2, <3>3, RateAssumption DEF TableBounded
  <2> QED BY <2>2, <2>3
<1>2. ASSUME Expire PROVE TableBounded'
  <2>1. DOMAIN buckets' \subseteq DOMAIN buckets
    BY <1>2 DEF Expire, Retained, Without
  <2>2. /\ IsFiniteSet(DOMAIN buckets')
        /\ Cardinality(DOMAIN buckets') <= Cardinality(DOMAIN buckets)
    BY <2>1, FS_Subset DEF TableBounded
  <2>3. Cardinality(DOMAIN buckets) \in Nat /\ Cardinality(DOMAIN buckets') \in Nat
    BY <2>2, FS_CardinalityType DEF TableBounded
  <2> QED BY <2>2, <2>3, RateAssumption DEF TableBounded
<1>3. ASSUME Tick \/ UNCHANGED vars PROVE TableBounded'
  BY <1>3 DEF Tick, vars, TableBounded
<1> QED BY <1>1, <1>2, <1>3 DEF Next

\* The invariant holds in every behaviour.
LEMMA Invariance == Spec => []IInv
<1>1. Init => IInv
  BY RateAssumption DEF Init, IInv, Types, Paid, EmptyMap
<1>2. IInv /\ [Next]_vars => IInv'
  <2> SUFFICES ASSUME IInv, [Next]_vars PROVE IInv'
    OBVIOUS
  <2>1. CASE \E peer \in Peers : Hello(peer)
    BY <2>1, HelloPays
  <2>2. CASE Expire
    BY <2>2, ExpirePays
  <2>3. CASE Tick
    <3>1. now' = now + 1 /\ buckets' = buckets /\ admitted' = admitted
      BY <2>3 DEF Tick
    <3>2. Types'
      BY <3>1 DEF IInv, Types, Bucket
    <3>3. ASSUME NEW q \in Peers PROVE Paid(q)'
      <4>1. Len(admitted[q]) \in Nat /\ now \in Nat
        BY DEF IInv, Types
      <4>2. RateRefillInterval * Len(admitted[q]) \in Int
        BY <4>1, RateAssumption
      <4> QED BY <3>1, <4>1, <4>2 DEF IInv, Paid
    <3> QED BY <3>2, <3>3 DEF IInv
  <2>4. CASE UNCHANGED vars
    BY <2>4 DEF vars, IInv, Types, Paid
  <2> QED BY <2>1, <2>2, <2>3, <2>4 DEF Next
<1> QED BY <1>1, <1>2, PTL DEF Spec

\* allow_handshake_attempt and expire keep every bucket between empty and
\* full and the table within max_pending_handshakes.
THEOREM RateTypeCorrect == Spec => []TypeOK
<1>1. Init => TableBounded
  BY FS_EmptySet, RateAssumption DEF Init, TableBounded, EmptyMap
<1>2. IInv /\ TableBounded => TypeOK
  BY DEF IInv, Types, Bucket, TableBounded, TypeOK
<1> QED BY <1>1, <1>2, TableStaysBounded, Invariance, PTL DEF Spec

\* For every configuration, allow_handshake_attempt admits from one peer at
\* most a burst and one hello per refill interval, whatever expire forgets.
THEOREM RateIsBounded == Spec => []RateBounded
<1>1. IInv => RateBounded
  <2> SUFFICES ASSUME IInv, NEW peer \in Peers
               PROVE  RateRefillInterval * Len(admitted[peer])
                        <= RateRefillInterval * RateLimitBurst + now
    BY DEF RateBounded
  <2> DEFINE n == Len(admitted[peer])
  <2>1. n \in Nat /\ now \in Nat
    BY DEF IInv, Types
  <2>2. CASE peer \in DOMAIN buckets
    <3> DEFINE k == buckets[peer].tokens
               t == buckets[peer].last_refill_at
    <3>1. k \in Nat /\ t \in Nat /\ t <= now
      BY <2>2, RateAssumption DEF IInv, Types, Bucket
    <3>2. RateRefillInterval * (n + k) <= RateRefillInterval * RateLimitBurst + t
      BY <2>2 DEF IInv, Paid
    <3> HIDE DEF n, k, t
    <3>3. RateRefillInterval * n <= RateRefillInterval * (n + k)
      BY <2>1, <3>1, RateAssumption
    <3>4. /\ RateRefillInterval * n \in Int /\ RateRefillInterval * (n + k) \in Int
          /\ RateRefillInterval * RateLimitBurst \in Int
      BY <2>1, <3>1, RateAssumption
    <3> QED BY <2>1, <3>1, <3>2, <3>3, <3>4 DEF n
  <2>3. CASE peer \notin DOMAIN buckets
    <3>1. RateRefillInterval * n <= now
      BY <2>3 DEF IInv, Paid
    <3> HIDE DEF n
    <3>2. RateRefillInterval * n \in Int /\ RateRefillInterval * RateLimitBurst \in Nat
      BY <2>1, RateAssumption
    <3> QED BY <2>1, <3>1, <3>2 DEF n
  <2> QED BY <2>2, <2>3
<1> QED BY <1>1, Invariance, PTL
=============================================================================
