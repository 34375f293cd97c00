---------------------------- MODULE SnapshotRule ----------------------------
(***************************************************************************)
(* One reading of a host through the hub's two edges, the push frame and     *)
(* the poll's JSON, then through the snapshot rule into the live metrics and *)
(* the values of the systems row (RFC 0007 §1-4, RFC 0014 §8).  A number is  *)
(* "v" when every width holds it, "huge" when only a double does, "nan" when *)
(* it is not finite; integers have the widths 0..I64Max and 0..U64Max.       *)
(***************************************************************************)
EXTENDS Integers, Sequences, FiniteSets, SequencesExt

CONSTANTS Readings,       \* what an agent may read: scalars, disks, time, capacity, cores
          Intervals,      \* poll intervals of a POST or a PUT
          I64Max, U64Max, \* the widest integer of SQLite, and of the wire
          MaxDisks,       \* MAX_DISKS
          WarningEvery,   \* WARNING_EVERY
          MaxRuleTime     \* bound: the clock

VARIABLES live,      \* the system's live metrics, or NoLive
          warned,    \* when its left-out values were last logged at warn, whoever asks
          stored,    \* the readings stored since the entry is there, newest first
          reg,       \* the systems row's values
          hour       \* the hub's monotonic clock

ruleVars == <<live, warned, stored, reg, hour>>

Scalars == {"cpu", "memory", "load1"}
Loads == {"load1"}
NotReported == "none"
NoLive == [kept |-> <<>>, warned |-> -2]
Never == -1

-----------------------------------------------------------------------------
(* The edges.                                                              *)

\* TryFrom<PushPayload>: every scalar is reported.  MessagePack carries every double.
FromPush(reading) ==
    [scalars |-> reading.scalars, disks |-> reading.disks, display |-> reading.display,
     bytes |-> reading.bytes, cores |-> reading.cores]

\* reported_snapshot and PolledAnswer::from.  serde_json writes a value that is not finite as
\* null, which reads as not reported.
OverJson(value) == IF value = "nan" THEN NotReported ELSE value
FromPoll(reading) ==
    [FromPush(reading) EXCEPT
        !.scalars = [s \in Scalars |-> OverJson(reading.scalars[s])],
        !.disks = [i \in DOMAIN reading.disks |->
                      [reading.disks[i] EXCEPT !.usage = OverJson(reading.disks[i].usage)]]]

-----------------------------------------------------------------------------
(* snapshot_rule.                                                          *)

\* `load as f32`: a double too large for a float is infinite.
Narrow(value) == IF value = "huge" THEN "nan" ELSE value

Finite(value) ==
    CASE value = NotReported -> "not_reported" [] value = "nan" -> "not_finite" [] OTHER -> "ok"

KeepScalars(scalars) ==
    LET value(s) == IF s \in Loads THEN Narrow(scalars[s]) ELSE scalars[s]
    IN  [s \in {x \in Scalars : Finite(value(x)) = "ok"} |-> value(s)]

\* disk_rule: the mount point before the usage.
DiskRule(disk) == IF disk.mount = "bad" THEN "invalid_mount_point" ELSE Finite(disk.usage)

KeepDiskLimited(kept, disk) ==  \* mutant: the limit counts the refused disks too
    IF disk.n <= MaxDisks /\ DiskRule(disk) = "ok" THEN Append(kept, disk) ELSE kept

\* keep_disks, one disk: kept while there is room, else counted as over the limit.
KeepDisk(kept, disk) ==
    IF DiskRule(disk) = "ok" /\ Len(kept) < MaxDisks THEN Append(kept, disk) ELSE kept

KeepDisks(disks) == FoldLeft(KeepDisk, <<>>, disks)

\* LeftOut: what was reported and is not kept, by whatever reason.
LeftOut(reported, kept) ==
    Cardinality(Scalars) - Cardinality(DOMAIN kept.scalars) + Len(reported.disks) - Len(kept.disks)

Kept(reported) == [scalars |-> KeepScalars(reported.scalars), disks |-> KeepDisks(reported.disks)]

-----------------------------------------------------------------------------
(* The live metrics and the warning about what was left out.               *)

HourlyWarning(last, now) == last = Never \/ now - last >= WarningEvery

LeftOutLogReset(previous, leftOut, now) ==  \* mutant: nothing left out forgets the warning
    IF leftOut = 0 THEN [warn |-> FALSE, at |-> Never]
    ELSE IF HourlyWarning(previous, now) THEN [warn |-> TRUE, at |-> now]
    ELSE [warn |-> FALSE, at |-> previous]

\* left_out_log.
LeftOutLog(previous, leftOut, now) ==
    IF leftOut = 0 THEN [warn |-> FALSE, at |-> previous]
    ELSE IF HourlyWarning(previous, now) THEN [warn |-> TRUE, at |-> now]
    ELSE [warn |-> FALSE, at |-> previous]

\* keep_live_metrics with LiveMetrics::following, in the store's transaction.
KeepLiveMetrics(reported) ==
    LET kept == Kept(reported)
        previous == IF live = NoLive THEN Never ELSE live.warned
        log == LeftOutLog(previous, LeftOut(reported, kept), hour)
    IN  /\ live' = [kept |-> kept, warned |-> log.at]
        /\ warned' = IF log.warn THEN hour ELSE IF live = NoLive THEN Never ELSE warned

-----------------------------------------------------------------------------
(* The row's values.                                                       *)

InI64(value) == value <= I64Max

\* What a column reads back of a u64 written into it: rusqlite maps a negative integer to no u64.
ReadsBack(column) == column >= 0

\* MemoryCapacity::reported: both halves within bounds, or none.
NoCapacity == [display |-> "none", bytes |-> 0]
Reported(display, bytes) ==
    IF display \notin {"none", "bad"} /\ InI64(bytes) THEN [display |-> display, bytes |-> bytes]
    ELSE NoCapacity

\* mutant: a capacity that displays the same is the same.
CapacityRefreshByDisplay(held, reported) ==
    IF reported # NoCapacity /\ reported.display # held.display THEN reported ELSE held

\* memory_capacity_refresh: the reported one when it differs from the row's, which counts only
\* when it is whole.
CapacityRefresh(held, reported) ==
    IF reported # NoCapacity /\ reported # Reported(held.display, held.bytes) THEN reported ELSE held

\* update_system_info: one statement, which rusqlite fails on a usize past i64::MAX.  It runs
\* while the hostname or the OS is missing.
FillValues(row, cores) == IF row.cores = 0 /\ InI64(cores) THEN [row EXCEPT !.cores = cores] ELSE row

\* fill_registry, of the row as the store left it.
Filled(row, reported) ==
    [FillValues(row, reported.cores) EXCEPT
        !.capacity = CapacityRefresh(row.capacity, Reported(reported.display, reported.bytes))]

\* LastSeen: an uptime display past the display rule leaves the column as it is; a poll writes
\* its time.
LastSeenAfter(row, display) == IF display = "bad" THEN row ELSE [row EXCEPT !.seen = display]

RuleInit ==
    /\ live = NoLive /\ warned = Never /\ stored = <<>> /\ hour = 0
    /\ reg \in [interval : {0}, cores : {0}, seen : {"blank"},
                capacity : {NoCapacity, [display |-> "one", bytes |-> 0]}]

StoreReading(reading, reported, seen) ==
    /\ KeepLiveMetrics(reported)
    /\ stored' = <<reading>>
    /\ reg' = Filled(LastSeenAfter(reg, seen), reported)
    /\ UNCHANGED hour

\* A pushed frame: SnapshotTime::try_from refuses it whole when SQLite can't hold its time.
PushSnapshot(reading) ==
    /\ InI64(reading.time)
    /\ StoreReading(reading, FromPush(reading), reading.uptime)

\* A polled answer, stamped by the hub.
PollSnapshot(reading) == StoreReading(reading, FromPoll(reading), "polled_at")

\* mutant: `as i64`.
PollIntervalWrapped(secs) == IF secs > I64Max THEN secs - U64Max - 1 ELSE secs

\* PollInterval::try_from and column_value: an interval the column can't hold refuses the body.
PollInterval(secs) == IF InI64(secs) THEN secs ELSE reg.interval

\* update_system, and register_system, whose least interval is 5 s (here 1) and whose INSERT
\* fails on a larger one.
UpdateSystem(secs) == reg' = [reg EXCEPT !.interval = PollInterval(secs)] /\ UNCHANGED <<live, warned, stored, hour>>

\* evict_live_metrics: the entry, and with it when it last warned.
EvictLive ==
    /\ live # NoLive /\ live' = NoLive /\ warned' = Never /\ stored' = <<>>
    /\ UNCHANGED <<reg, hour>>

HourPasses == hour < MaxRuleTime /\ hour' = hour + 1 /\ UNCHANGED <<live, warned, stored, reg>>

RuleNext ==
    \/ \E r \in Readings : PushSnapshot(r) \/ PollSnapshot(r)
    \/ \E secs \in Intervals : UpdateSystem(secs)
    \/ EvictLive \/ HourPasses

-----------------------------------------------------------------------------
\* Whichever path it took, the live entry holds every value of the reading that a float can
\* hold and the first MAX_DISKS disks that pass, in their order (`snapshot_rule`).
KeptIsWhatFits ==
    stored # <<>> =>
        LET reading == stored[1]
            good == SelectSeq(reading.disks, LAMBDA d : d.mount # "bad" /\ d.usage = "v")
            first == SubSeq(good, 1, IF Len(good) < MaxDisks THEN Len(good) ELSE MaxDisks)
        IN  /\ DOMAIN live.kept.scalars = {s \in Scalars : reading.scalars[s] = "v"}
            /\ [i \in DOMAIN live.kept.disks |-> live.kept.disks[i].n] = [i \in DOMAIN first |-> first[i].n]

\* A system whose entry stays warns about left-out values at most once in WARNING_EVERY,
\* whatever it reports in between (`left_out_log`, `LiveMetrics::following`).
WarnsHourly == warned' # warned /\ warned # Never /\ warned' # Never => warned' - warned >= WarningEvery

\* Every integer of the row reads back, so that no write makes `list_systems` fail for the
\* whole fleet (`PollInterval`, `MemoryCapacity::reported`).
RowReadsBack == ReadsBack(reg.interval) /\ ReadsBack(reg.cores) /\ ReadsBack(reg.capacity.bytes)

\* Once a system reported a whole capacity, the row holds the last one, both halves of one report.
CapacityIsReported ==
    stored # <<>> =>
        LET reported == Reported(stored[1].display, stored[1].bytes)
        IN  reported # NoCapacity => reg.capacity = reported

\* Whatever a snapshot carries, what fits is kept, the row reads back with the last whole
\* capacity, and what is left out is warned of at most hourly.
SnapshotsKept ==
    [][/\ (KeptIsWhatFits /\ RowReadsBack /\ CapacityIsReported)'
       /\ WarnsHourly]_ruleVars
=============================================================================
