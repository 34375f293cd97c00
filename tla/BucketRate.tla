----------------------------- MODULE BucketRate -----------------------------
(***************************************************************************)
(* One source of messages behind a token bucket, as a push connection's      *)
(* decode budget and a round source's pace use it: a message comes at any    *)
(* time, and is taken or refused.                                           *)
(***************************************************************************)
EXTENDS TokenBucket, Integers, Sequences

CONSTANTS BucketSizes, BucketPeriods,  \* the capacities and periods tried
          MaxBucketTime,               \* bound: ticks
          MaxTakes                     \* bound: messages taken

\* A capacity is a NonZeroU8; a period may be zero.
ASSUME BucketAssumption ==
    /\ BucketSizes \subseteq Nat \ {0} /\ BucketPeriods \subseteq Nat
    /\ MaxBucketTime \in Nat /\ MaxTakes \in Nat

VARIABLES tick, bucket,
          takes,     \* history: when each message was taken
          refused    \* history: when a message was last refused, or NeverRefused

bucketVars == <<tick, bucket, takes, refused>>

NeverRefused == MaxBucketTime + 1

BucketInit ==
    /\ tick = 0 /\ takes = <<>> /\ refused = NeverRefused
    /\ \E size \in BucketSizes, period \in BucketPeriods : bucket = Full(size, period, 0)

BucketTick ==
    /\ tick < MaxBucketTime /\ tick' = tick + 1 /\ UNCHANGED <<bucket, takes, refused>>

\* DecodeBudget::spend and SourcePace::pass: the bucket that remains, or the one there was.
Message ==
    /\ Len(takes) < MaxTakes /\ UNCHANGED tick
    /\ IF CanTake(bucket, tick)
       THEN bucket' = Taken(bucket, tick) /\ takes' = Append(takes, tick) /\ UNCHANGED refused
       ELSE refused' = tick /\ UNCHANGED <<bucket, takes>>

BucketNext == BucketTick \/ Message

BucketSpec == BucketInit /\ [][BucketNext]_bucketVars

-----------------------------------------------------------------------------
\* The messages of the window (from, to] are at most the bucket and one per whole period: the
\* refill keeps the remainder of a period and never grants it twice.
WithinRate ==
    \A i, j \in DOMAIN takes :
        (bucket.period > 0 /\ i <= j) =>
            j - i + 1 <= bucket.capacity + (takes[j] - takes[i]) \div bucket.period

\* A message refused really was one too many: with it, some window would exceed the rate, so an
\* honest sender, which stays within it, never loses one; with no period, none is refused.
RefusedOnlyBeyondRate ==
    refused = tick =>
        /\ bucket.period > 0
        /\ \E i \in DOMAIN takes :
               Len(takes) - i + 2 > bucket.capacity + (tick - takes[i]) \div bucket.period

\* The bucket is exact: no window takes more than its rate and burst, and nothing within them is
\* refused.
RateExact == WithinRate /\ RefusedOnlyBeyondRate
=============================================================================
