----------------------------- MODULE RateLimiter -----------------------------
(***************************************************************************)
(* The keyed token buckets in front of the evaluate handler                *)
(* (cmd/tg-proxy/ratelimit.go).  allow() finds or creates the bucket of a  *)
(* key under the limiter's mutex and takes a token from it after releasing *)
(* that mutex, so a bucket may be dropped by another request's idle sweep  *)
(* between the two; a bucket is therefore an object of its own and the map *)
(* from keys to buckets is separate.                                       *)
(***************************************************************************)
EXTENDS Naturals, Sequences, FiniteSets

CONSTANTS Keys,       \* rate-limit keys of envelopes, "" included
          Burst,      \* bucket capacity
          Rate,       \* tokens refilled per tick
          IdleEvict,  \* idleEvict, in ticks
          MaxKeys,    \* maxKeys: map size at which an insert sweeps first
          MaxTime     \* bound on the clock

ASSUME RateLimiterAssumption ==
    /\ Burst \in Nat \ {0}
    /\ Rate \in Nat /\ IdleEvict \in Nat /\ MaxTime \in Nat
    /\ MaxKeys \in Nat \ {0}

VARIABLES
    now,       \* the clock
    buckets,   \* r.buckets: the index of each key's bucket, 0 when it has none
    bucket,    \* every bucket made so far: its tokens and last access
    admitted,  \* history: tokens granted to each key
    stale      \* history: those granted by a bucket no longer in the map

limiterVars == <<now, buckets, bucket, admitted, stale>>

\* The key a request is limited under: requests without one share a bucket.
LimitKey(k) == IF k = "" THEN "_unknown" ELSE k

LimitKeys == {LimitKey(k) : k \in Keys}

Mapped(m) == {k \in LimitKeys : m[k] # 0}

Least(a, b) == IF a < b THEN a ELSE b

LimiterInit ==
    /\ now = 0
    /\ buckets = [k \in LimitKeys |-> 0]
    /\ bucket = <<>>
    /\ admitted = [k \in LimitKeys |-> 0]
    /\ stale = [k \in LimitKeys |-> 0]

Tick ==
    /\ now < MaxTime
    /\ now' = now + 1
    /\ UNCHANGED <<buckets, bucket, admitted, stale>>

\* The sweep mistaking every bucket for an idle one.
SweepAll(m) == [k \in LimitKeys |-> 0]

\* The map after an idle sweep.
SweepIdle(m) ==
    [k \in LimitKeys |->
        IF m[k] # 0 /\ bucket[m[k]].last + IdleEvict < now THEN 0 ELSE m[k]]

\* allow, the part under r.mu: b is the bucket the request goes on with.
FetchBucket(key, b) ==
    LET k == LimitKey(key)
        m == IF Cardinality(Mapped(buckets)) >= MaxKeys THEN SweepIdle(buckets)
             ELSE buckets
    IN IF buckets[k] # 0
       THEN b = buckets[k] /\ UNCHANGED limiterVars
       ELSE /\ b = Len(bucket) + 1
            /\ bucket' = Append(bucket, [tokens |-> Burst, last |-> now])
            /\ buckets' = [m EXCEPT ![k] = b]
            /\ UNCHANGED <<now, admitted, stale>>

\* What a bucket holds after its lazy refill.
Refilled(b) == Least(Burst, bucket[b].tokens + Rate * (now - bucket[b].last))

\* take: refill, and spend a token when there is one.
Take(key, b, granted) ==
    LET k == LimitKey(key) IN
    /\ granted = (Refilled(b) >= 1)
    /\ bucket' = [bucket EXCEPT ![b] =
                    [tokens |-> IF granted THEN Refilled(b) - 1 ELSE Refilled(b),
                     last |-> now]]
    /\ admitted' = [admitted EXCEPT ![k] = @ + IF granted THEN 1 ELSE 0]
    /\ stale' = [stale EXCEPT ![k] = @ + IF granted /\ buckets[k] # b THEN 1 ELSE 0]
    /\ UNCHANGED <<now, buckets>>

\* No key is granted more than its burst and the refill since the start, save
\* the requests that held a bucket the sweep dropped before they took from it
\* - provided an evicted bucket would have been full again, which the flags do
\* not enforce: the idle period must refill the burst.
RateBudget ==
    IdleEvict * Rate >= Burst =>
        \A k \in LimitKeys : admitted[k] <= Burst + Rate * now + stale[k]

=============================================================================
