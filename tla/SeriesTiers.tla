----------------------------- MODULE SeriesTiers ----------------------------
(***************************************************************************)
(* One series in the head, in its three tiers (state.rs, rollup.rs, tier.rs, *)
(* state/tail.rs): points go into the open raw chunk and into the open       *)
(* minute and hour buckets; a bucket closes into its tier's open chunk, and  *)
(* a chunk is sealed when it is full or its span is over.  A restart reopens *)
(* the series from its tail.                                                 *)
(***************************************************************************)
EXTENDS Integers, Sequences, FiniteSets, SequencesExt, FiniteSetsExt, TLC

CONSTANTS SpanSecs,      \* per tier, the length of a span
          BucketSecs,    \* per tier, the length of a bucket (raw: a minute's)
          SweepSecs,     \* SWEEP_SECS
          MaxRawPoints,  \* MAX_RAW_POINTS
          SeriesValues, MaxSeriesTime, MaxSeriesPoints

VARIABLES series,    \* SeriesState
          sealedAt,  \* the chunks sealed, by (tier, span, seq): what the writer inserts
          hubNow,    \* hub time
          appended,  \* history: the points accepted
          over       \* history: the spans a sweep found closed

tierVars == <<series, sealedAt, hubNow, appended, over>>

Tiers == {"raw", "minute", "hour"}
Rollups == {"minute", "hour"}
None == -1

SpanOf(tier, ts) == ts - (ts % SpanSecs[tier])
SpanEnd(tier, span) == span + SpanSecs[tier]
GraceNoBucket(tier) == SweepSecs  \* mutant: no bucket length
GraceSecs(tier) == BucketSecs[tier] + SweepSecs
IsClosed(tier, span, now) == now > SpanEnd(tier, span) + GraceSecs(tier)
MaxItems(tier) == IF tier = "raw" THEN MaxRawPoints ELSE SpanSecs[tier] \div BucketSecs[tier]

-----------------------------------------------------------------------------
(* The open bucket (rollup.rs).                                            *)

NoBucket == [index |-> None, sum |-> 0, count |-> 0, min |-> 0, max |-> 0]
OpenBucket(tier, ts, value) ==
    [index |-> ts \div BucketSecs[tier], sum |-> value, count |-> 1, min |-> value, max |-> value]
Holds(bucket, tier, ts) == bucket # NoBucket /\ ts \div BucketSecs[tier] = bucket.index
AddToBucket(bucket, value) ==
    [bucket EXCEPT !.sum = @ + value, !.count = @ + 1, !.min = Min({@, value}), !.max = Max({@, value})]

CloseTruncated(bucket) ==  \* mutant: the average is truncated
    [index |-> bucket.index, avg |-> bucket.sum \div bucket.count, min |-> bucket.min,
     max |-> bucket.max, count |-> bucket.count]

\* Accumulator::close: the average rounded half away from zero; the sums are not negative.
Close(bucket) ==
    LET half == (bucket.count + 1) \div 2
        rounded == (bucket.sum + bucket.count - half) \div bucket.count
    IN  [index |-> bucket.index, avg |-> Max({bucket.min, Min({rounded, bucket.max})}),
         min |-> bucket.min, max |-> bucket.max, count |-> bucket.count]

-----------------------------------------------------------------------------
(* The open chunk of a tier: its items, its span and the seq of its next   *)
(* seal.  `put` is what was sealed on the way, a function of keys.          *)

EmptyOpen == [items |-> <<>>, span |-> None, seq |-> 0]
NoSeal == <<>>
Sealed(tier, open) ==
    IF open.items = <<>> THEN NoSeal ELSE (<<tier, open.span, open.seq>> :> open.items)
AfterSeal(open) ==
    IF open.items = <<>> THEN open ELSE [open EXCEPT !.items = <<>>, !.seq = @ + 1]

\* mutant: a full chunk's next chunk starts empty.
PushInLossy(tier, open, span, item) ==
    LET fresh == IF open.span = span THEN open ELSE [AfterSeal(open) EXCEPT !.span = span, !.seq = 0]
        first == IF open.span = span THEN NoSeal ELSE Sealed(tier, open)
    IN  IF Len(fresh.items) < MaxItems(tier)
        THEN [open |-> [fresh EXCEPT !.items = Append(@, item)], put |-> first]
        ELSE [open |-> AfterSeal(fresh), put |-> first @@ Sealed(tier, fresh)]

\* Open::push_in: a new span seals the open chunk first and starts its seqs anew; a full chunk
\* is sealed and the item starts the next one.
PushIn(tier, open, span, item) ==
    LET fresh == IF open.span = span THEN open ELSE [AfterSeal(open) EXCEPT !.span = span, !.seq = 0]
        first == IF open.span = span THEN NoSeal ELSE Sealed(tier, open)
    IN  IF Len(fresh.items) < MaxItems(tier)
        THEN [open |-> [fresh EXCEPT !.items = Append(@, item)], put |-> first]
        ELSE [open |-> [AfterSeal(fresh) EXCEPT !.items = <<item>>],
              put |-> first @@ Sealed(tier, fresh)]

\* RollupState::close_bucket.
CloseBucket(tier, roll) ==
    IF roll.bucket = NoBucket THEN [roll |-> roll, put |-> NoSeal]
    ELSE LET closed == Close(roll.bucket)
             pushed == PushIn(tier, roll.open, SpanOf(tier, closed.index * BucketSecs[tier]), closed)
         IN  [roll |-> [bucket |-> NoBucket, open |-> pushed.open], put |-> pushed.put]

\* RollupState::add: a point of a later bucket closes the open one first.
AddPoint(tier, roll, ts, value) ==
    IF Holds(roll.bucket, tier, ts)
    THEN [roll |-> [roll EXCEPT !.bucket = AddToBucket(@, value)], put |-> NoSeal]
    ELSE LET closed == CloseBucket(tier, roll)
         IN  [roll |-> [closed.roll EXCEPT !.bucket = OpenBucket(tier, ts, value)], put |-> closed.put]

\* RollupState::sweep: a bucket more than a bucket length past its end closes.
SweepTier(tier, roll, now) ==
    IF roll.bucket # NoBucket /\ now - (roll.bucket.index + 1) * BucketSecs[tier] > BucketSecs[tier]
    THEN CloseBucket(tier, roll) ELSE [roll |-> roll, put |-> NoSeal]

SealIfClosed(tier, open, now) ==
    IF open.span # None /\ IsClosed(tier, open.span, now)
    THEN [open |-> AfterSeal(open), put |-> Sealed(tier, open)] ELSE [open |-> open, put |-> NoSeal]

-----------------------------------------------------------------------------
(* SeriesState.                                                            *)

NewSeries == [last |-> None, raw |-> EmptyOpen,
              minute |-> [bucket |-> NoBucket, open |-> EmptyOpen],
              hour |-> [bucket |-> NoBucket, open |-> EmptyOpen]]

TiersInit ==
    series = NewSeries /\ sealedAt = <<>> /\ hubNow = 0 /\ appended = <<>> /\ over = {}

\* SeriesState::append at hub time: refused unless after the last point.
AppendToSeries(value) ==
    /\ hubNow > series.last /\ Len(appended) < MaxSeriesPoints
    /\ LET raw == PushIn("raw", series.raw, SpanOf("raw", hubNow), [ts |-> hubNow, value |-> value])
           minute == AddPoint("minute", series.minute, hubNow, value)
           hour == AddPoint("hour", series.hour, hubNow, value)
       IN  /\ series' = [last |-> hubNow, raw |-> raw.open, minute |-> minute.roll, hour |-> hour.roll]
           /\ sealedAt' = raw.put @@ minute.put @@ hour.put @@ sealedAt
    /\ appended' = Append(appended, [ts |-> hubNow, value |-> value])
    /\ UNCHANGED <<hubNow, over>>

\* Core::sweep: the buckets, then the chunks of closed spans.
SweepSeries ==
    LET minute == SweepTier("minute", series.minute, hubNow)
        hour == SweepTier("hour", series.hour, hubNow)
        rawSeal == SealIfClosed("raw", series.raw, hubNow)
        minuteSeal == SealIfClosed("minute", minute.roll.open, hubNow)
        hourSeal == SealIfClosed("hour", hour.roll.open, hubNow)
    IN  /\ series' = [series EXCEPT !.raw = rawSeal.open,
                                    !.minute = [minute.roll EXCEPT !.open = minuteSeal.open],
                                    !.hour = [hour.roll EXCEPT !.open = hourSeal.open]]
        /\ sealedAt' = minute.put @@ hour.put @@ rawSeal.put @@ minuteSeal.put @@ hourSeal.put @@ sealedAt
        /\ over' = {<<t, s>> \in Tiers \X (0..MaxSeriesTime) : s % SpanSecs[t] = 0 /\ IsClosed(t, s, hubNow)}
        /\ UNCHANGED <<hubNow, appended>>

-----------------------------------------------------------------------------
(* The tail.                                                               *)

Starts(tier, items) ==
    [i \in DOMAIN items |-> IF tier = "raw" THEN items[i].ts ELSE items[i].index * BucketSecs[tier]]

InSpan(tier, open) ==
    \A t \in Range(Starts(tier, open.items)) : open.span # None /\ SpanOf(tier, t) = open.span

\* mutant: nothing may be at the last point's second.
CoherentStrict(s) ==
    /\ InSpan("raw", s.raw)
    /\ \A t \in Range(Starts("raw", s.raw.items)) : t < s.last
    /\ \A tier \in Rollups :
        LET roll == s[tier]
            closed == Range(Starts(tier, roll.open.items))
            start == roll.bucket.index * BucketSecs[tier]
        IN  /\ InSpan(tier, roll.open)
            /\ roll.bucket # NoBucket => (\A t \in closed : t < start) /\ start <= s.last
            /\ \A t \in closed : t <= s.last

\* check_coherence: every item in its chunk's span, none after the last point, an open bucket
\* after its tier's closed ones.
Coherent(s) ==
    /\ InSpan("raw", s.raw)
    /\ \A t \in Range(Starts("raw", s.raw.items)) : t <= s.last
    /\ \A tier \in Rollups :
        LET roll == s[tier]
            closed == Range(Starts(tier, roll.open.items))
            start == roll.bucket.index * BucketSecs[tier]
        IN  /\ InSpan(tier, roll.open)
            /\ roll.bucket # NoBucket => (\A t \in closed : t < start) /\ start <= s.last
            /\ \A t \in closed : t <= s.last

\* Accumulator::from_parts, of every open bucket; check_domain's values are in the domain as
\* the points are.
Consistent(bucket) ==
    bucket = NoBucket \/ /\ bucket.count > 0 /\ bucket.min <= bucket.max
                         /\ bucket.count * bucket.min <= bucket.sum
                         /\ bucket.sum <= bucket.count * bucket.max

\* from_tail of to_tail: the fields, once checked against each other.
FromTail(s) ==
    [ok |-> Coherent(s) /\ Consistent(s.minute.bucket) /\ Consistent(s.hour.bucket), state |-> s]

\* A restart at a commit: the series is what its tail gives.
ReopenSeries ==
    /\ FromTail(series).ok /\ series' = FromTail(series).state
    /\ UNCHANGED <<sealedAt, hubNow, appended, over>>

TimePasses == hubNow < MaxSeriesTime /\ hubNow' = hubNow + 1 /\ UNCHANGED <<series, sealedAt, appended, over>>

TiersNext == (\E v \in SeriesValues : AppendToSeries(v)) \/ SweepSeries \/ ReopenSeries \/ TimePasses

-----------------------------------------------------------------------------
\* The items of a tier, sealed then open, in the order of their keys.
ItemsOf(tier) ==
    LET keys == {k \in DOMAIN sealedAt : k[1] = tier}
        ordered == SetToSortSeq(keys, LAMBDA a, b : a[2] < b[2] \/ (a[2] = b[2] /\ a[3] < b[3]))
        open == IF tier = "raw" THEN series.raw ELSE series[tier].open
    IN  FlattenSeq([i \in DOMAIN ordered |-> sealedAt[ordered[i]]]) \o open.items

\* Every accepted point is in the raw tier once and in order, whatever was sealed and however
\* often the series was reopened: no chunk's key is given twice, and none loses its last point.
RawIsWhole == ItemsOf("raw") = appended

\* A tier's closed buckets are those of its points: one a bucket length, with their rounded
\* average, minimum, maximum and count; the open one holds the rest.
RollupsExact ==
    \A tier \in Rollups :
        LET closed == ItemsOf(tier)
            of(i) == SelectSeq(appended, LAMBDA p : p.ts \div BucketSecs[tier] = closed[i].index)
            vals(i) == {of(i)[j].value : j \in DOMAIN of(i)}
            sum(i) == FoldLeft(LAMBDA acc, p : acc + p.value, 0, of(i))
        IN  /\ \A i \in DOMAIN closed :
                  /\ closed[i].count = Len(of(i)) /\ Len(of(i)) > 0
                  /\ closed[i].min = Min(vals(i)) /\ closed[i].max = Max(vals(i))
                  /\ closed[i].avg = (2 * sum(i) + Len(of(i))) \div (2 * Len(of(i)))
            /\ FoldLeft(LAMBDA acc, b : acc + b.count, 0, closed) + series[tier].bucket.count
                  = Len(appended)

\* HoldsOpen of state.rs.
HoldsOpen(tier, span) ==
    LET open == IF tier = "raw" THEN series.raw ELSE series[tier].open
    IN  \/ open.span = span /\ open.items # <<>>
        \/ /\ tier # "raw" /\ series[tier].bucket # NoBucket
           /\ SpanOf(tier, series[tier].bucket.index * BucketSecs[tier]) = span

\* Once a sweep found a span closed, nothing of it is open ever again: the handoff that follows
\* reads the whole span from `chunks`.
ClosedSpansWhole == \A c \in over : ~HoldsOpen(c[1], c[2])

\* Whatever state a series is in, its tail reopens: no commit leaves a store that can't open.
TailsReopen == FromTail(series).ok

\* A series in its three tiers is whole at every moment and after every reopening: each point in
\* a raw chunk, each bucket the exact rollup of its points, each closed span complete.
SeriesWhole ==
    /\ RawIsWhole
    /\ RollupsExact
    /\ ClosedSpansWhole
    /\ TailsReopen
=============================================================================
