------------------------------ MODULE Buckets ------------------------------
(***************************************************************************)
(* The token buckets of adapters/inbound/grpc/ratelimit.go: made on the    *)
(* first request of a key, refilled only when the key asks again, dropped  *)
(* when idle and, at a ceiling, dropped though they are not.  One tick is  *)
(* the time of one token, so that the arithmetic is that of integers.      *)
(***************************************************************************)
EXTENDS Integers, FiniteSets

CONSTANTS Keys,          \* clients and classes of methods
          Burst,         \* most tokens of a bucket
          Costs,         \* what requests cost (methodCost)
          IdleAfter,     \* idleEvictAfter
          SweepInterval, \* sweepInterval
          SweepAt, MaxBuckets, LowWater,   \* sweepThreshold, maxBuckets, evictLowWater
          MaxClock       \* bound: ticks

\* "A bucket idle this long has fully refilled" needs a rate of at least
\* Burst / IdleAfter, which the code leaves to its configuration.
ASSUME BucketsAssumption ==
    /\ Burst \in Nat \ {0} /\ Costs \subseteq Nat \ {0}
    /\ IdleAfter \in Nat /\ IdleAfter >= Burst
    /\ {SweepInterval, SweepAt, LowWater, MaxClock} \subseteq Nat
    /\ MaxBuckets \in Nat /\ MaxBuckets > LowWater

VARIABLES
    bucket,     \* the map: a function on the keys that have a bucket
    lastSweep,  \* when evictIdle ran last
    time,
    verdict     \* the last request and its answer

bucketVars == <<bucket, lastSweep, time, verdict>>

-----------------------------------------------------------------------------
Bucket == [tokens : 0..Burst, last : Nat]
Tracked == DOMAIN bucket
Full(n) == Cardinality(Tracked) >= n

BucketsTypeOK ==
    /\ Tracked \subseteq Keys
    /\ bucket \in [Tracked -> Bucket]
    /\ lastSweep \in Int /\ time \in 0..MaxClock
    /\ verdict \in [key : Keys \cup {"none"}, ok : BOOLEAN]

BucketsInit ==
    /\ bucket = [k \in {} |-> [tokens |-> 0, last |-> 0]]
    /\ lastSweep = -SweepInterval     \* the zero time: long ago
    /\ time = 0
    /\ verdict = [key |-> "none", ok |-> TRUE]

Smaller(a, b) == IF a <= b THEN a ELSE b
Cost(cost) == Smaller(cost, Burst)

\* What a bucket holds now, if it were refilled.
Refilled(b) == Smaller(Burst, b.tokens + (time - b.last))

Only(keys) == [k \in keys |-> bucket[k]]

\* A faulty Idle: buckets are dropped before they are full again.
IdleTooSoon == {k \in Tracked : time - bucket[k].last > IdleAfter - 2}

Idle == {k \in Tracked : time - bucket[k].last > IdleAfter}

\* The maps that evictBatch may leave: it deletes buckets in no particular order
\* until LowWater are left.
Batches(keys) == {kept \in SUBSET keys : Cardinality(kept) = LowWater}

\* The bucket of key k as this request finds it, spent from if it holds enough.
Spend(k, tokens, cost, rest) ==
    LET ok == tokens >= Cost(cost) IN
    /\ bucket' = [j \in rest \cup {k} |->
                    IF j = k THEN [tokens |-> IF ok THEN tokens - Cost(cost) ELSE tokens,
                                   last |-> time]
                    ELSE bucket[j]]
    /\ verdict' = [key |-> k, ok |-> ok]

AllowKnown(k, cost) ==
    /\ k \in Tracked
    /\ Spend(k, Refilled(bucket[k]), cost, Tracked)
    /\ UNCHANGED <<lastSweep, time>>

SweepDue == Full(SweepAt) /\ time - lastSweep >= SweepInterval

\* A new key: the map is swept, if that is due, then cut to size, if it is full.
AllowNew(k, cost) ==
    /\ k \in Keys \ Tracked
    /\ LET swept == IF SweepDue THEN Tracked \ Idle ELSE Tracked IN
       IF Cardinality(swept) >= MaxBuckets
       THEN \E kept \in Batches(swept) : Spend(k, Burst, cost, kept)
       ELSE Spend(k, Burst, cost, swept)
    /\ lastSweep' = IF SweepDue THEN time ELSE lastSweep
    /\ UNCHANGED time

Elapse ==
    /\ time < MaxClock
    /\ time' = time + 1
    /\ UNCHANGED <<bucket, lastSweep, verdict>>

BucketsNext ==
    \/ Elapse
    \/ \E k \in Keys, cost \in Costs : AllowKnown(k, cost) \/ AllowNew(k, cost)

BucketsSpec == BucketsInit /\ [][BucketsNext]_bucketVars

-----------------------------------------------------------------------------
\* A key without a bucket would be given a full one.
Allowance == [k \in Keys |-> IF k \in Tracked THEN Refilled(bucket[k]) ELSE Burst]

Promise == INSTANCE Limiter WITH avail <- Allowance

\* "A legitimate key is at worst granted a limit reset, never locked out": the asking
\* key is new, the others keep their allowance or are given a full one.
LimitReset ==
    /\ verdict'.key \in Keys \ Tracked /\ verdict'.ok
    /\ \A k \in Keys \ {verdict'.key} : Allowance'[k] \in {Allowance[k], Burst}

(* Lazy refilling and both evictions are invisible: the map of buckets behaves *)
(* as an allowance per key, refilled at every tick and never forgotten; only   *)
(* a map at its ceiling may reset limits ("its removal is behavior-preserving",*)
(* evictIdle; "at worst granted a limit reset, never locked out", evictBatch). *)
EvictionIsInvisible ==
    /\ Promise!Init
    /\ [][Promise!Next \/ (Full(MaxBuckets) /\ LimitReset)]_<<Allowance, verdict>>

(* "The map can never exceed it": the hard ceiling is absolute. *)
MapIsBounded == Cardinality(Tracked) <= MaxBuckets

=============================================================================
