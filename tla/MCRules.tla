------------------------------ MODULE MCRules ------------------------------
(***************************************************************************)
(* The hub's rules and the store's formats, which share no state that more   *)
(* than one of their modules tracks, side by side as in MCAgent: `rulePart`  *)
(* is the one that runs, and the others keep one of their initial states.    *)
(***************************************************************************)
EXTENDS RoundIntake, FleetHistory, HubStart, BucketRate, ScrapeWire, SnapshotRule,
        HubCalendar, SeriesTiers, ChunkCodec, RetentionPlan, BlockFile, StoreRecords, MailReport

VARIABLE rulePart

ruleSets == <<roundVars, histVars, startHubVars, bucketVars, wireVars, shownVars, ruleVars,
              calVars, tierVars, codecVars, retVars, fileVars, recVars, reportVars>>

-----------------------------------------------------------------------------
(* FleetHistory: a metric with a row of its own, and one whose row is not    *)
(* usable.                                                                   *)
MCOwnRetention == [heap |-> 2, up |-> -1]
MCQuerySinces == {-1, 1}

-----------------------------------------------------------------------------
(* ScrapeWire.                                                               *)
MCGauges == {<<>>, [heap |-> "1"], [heap |-> "2", cpu |-> "1"]}
MCAgentReports ==
    [name : {"a"}, health : {"up", "unreachable"}, version : {"none", "v"}, gauges : MCGauges]
        \cup [name : {"b"}, health : {"down"}, version : {"v"}, gauges : MCGauges]
\* Names, healths, versions and gauges the hub refuses, replaces or leaves out.
MCWireReports ==
    [name : {"a", "b c"}, health : {"up", "odd"}, version : {"blank"},
     gauges : {[heap |-> "1", odd |-> "2"]}]
        \cup [name : {"b"}, health : {"down"}, version : {"v"},
              gauges : {[heap |-> "1", cpu |-> "nan"], <<>>}]

-----------------------------------------------------------------------------
(* SnapshotRule: values of every class, more disks than are kept, and        *)
(* integers at and past the column's width.                                  *)
Disk(n, mount, usage) == [n |-> n, mount |-> mount, usage |-> usage]
MCDiskLists == {<<>>, <<Disk(1, "ok", "v")>>,
                <<Disk(1, "bad", "v"), Disk(2, "ok", "v"), Disk(3, "ok", "nan"),
                  Disk(4, "ok", "v"), Disk(5, "ok", "v")>>}
Scalar(cpu, load) == [cpu |-> cpu, memory |-> "v", load1 |-> load]
MCReadings ==
    [scalars : {Scalar("v", "v"), Scalar("nan", "huge")}, disks : MCDiskLists, time : {0, 4},
     display : {"one"}, bytes : {1, 2}, cores : {1}, uptime : {"up"}]
        \cup [scalars : {Scalar("v", "v")}, disks : {<<>>}, time : {3},
              display : {"bad", "none", "one", "two"}, bytes : {1, 4}, cores : {5}, uptime : {"bad"}]

-----------------------------------------------------------------------------
(* HubCalendar: the first years, a leap century and a common one.            *)
MCCalendarStarts == {<<0, 1970, 1, 1>>, <<10957, 2000, 1, 1>>, <<47482, 2100, 1, 1>>}

(* SeriesTiers: two buckets of either rollup in a span.                      *)
MCSpanSecs == [raw |-> 4, minute |-> 4, hour |-> 8]
MCBucketSecs == [raw |-> 2, minute |-> 2, hour |-> 4]

-----------------------------------------------------------------------------
(* ChunkCodec: five-bit words, with values and steps at their ends.          *)
MCDodWidths == <<2, 3, 4>>
MCValueWidths == <<2, 3, 5>>
MCItemValues == {-16, -5, 0, 1, 15}
MCItemBuckets ==
    {[index |-> i, avg |-> v[1], min |-> v[2], max |-> v[3], count |-> v[4]] :
        i \in {0, 1, 2, 4, 9, 31},
        v \in {<<0, 0, 0, 1>>, <<-16, -16, 15, 2>>, <<15, -16, 15, 9>>, <<3, 1, 5, 1>>, <<3, 4, 5, 1>>}}

-----------------------------------------------------------------------------
(* RetentionPlan: two generations, one of a system with overrides; files of  *)
(* one holder or two, in every condition; requests out of bounds and twice   *)
(* for one tier.                                                             *)
MCTiers == <<"raw", "minute", "hour">>
MCRetSpanLen == [raw |-> 1, minute |-> 2, hour |-> 2]
MCMinPeriod == [t \in {"raw", "minute", "hour"} |-> 1]
MCMaxPeriod == [t \in {"raw", "minute", "hour"} |-> 3]
MCGlobals == {[raw |-> r, minute |-> 2, hour |-> 3] : r \in {1, 2}}
MCRequests == {<<>>, <<<<"raw", 1>>>>, <<<<"raw", 3>>>>, <<<<"raw", 4>>>>, <<<<"raw", 1>>, <<"raw", 3>>>>}
MCSystemOf == [g1 |-> "s1", g2 |-> "s2"]
BlockFacts(tier, span, condition, holders, length) ==
    [tier |-> tier, span |-> span, length |-> length, condition |-> condition, chunks |-> 1,
     holders |-> [g \in holders |-> IF g = "g1" THEN 1 ELSE 3]]
InHead == [g1 |-> "head", g2 |-> "head"]
OneFile(condition, holders, named) ==
    [files |-> {BlockFacts("raw", 0, condition, holders, 5)}, named |-> named]
FourFiles(condition) ==
    [files |-> {BlockFacts("raw", 0, condition, {"g1", "g2"}, 5), BlockFacts("raw", 1, "sound", {"g1"}, 3),
                BlockFacts("minute", 0, "sound", {"g1"}, 4), BlockFacts("hour", 0, "sound", {"g2"}, 4)},
     named |-> InHead]
MCInventories ==
    {OneFile("sound", holders, InHead) : holders \in SUBSET {"g1", "g2"}}
        \cup {OneFile("sound", {"g1"}, [InHead EXCEPT !.g1 = n]) : n \in {"record", "damaged", "gone"}}
        \cup {OneFile("sound", {"g1", "g2"}, [InHead EXCEPT !.g1 = "gone"]),
              OneFile("damaged", {"g1", "g2"}, InHead), FourFiles("sound"), FourFiles("in_flight")}
MCStorageCaps == {Unlimited, 9}

-----------------------------------------------------------------------------
(* StoreRecords: system keys that begin one another, names off the grid or   *)
(* spelled another way, and values at the ends of each kind.                 *)
MCGrid == [raw |-> 2, minute |-> 4, hour |-> 4]
MCSystemKeys == {<<1>>, <<2>>, <<1, 1>>, <<1, 2>>, <<2, 1, 1>>}
MCMetricNames == {<<1>>, <<1, 1>>, <<0>>, <<2, 1>>}
MCBlockNames == [tier : {"raw"}, span : {4}, rewrite : {0, 1}] \cup [tier : {"minute"}, span : {4}, rewrite : {0}]
MCStrays == {<<"0", "4", ".blk">>, <<"4", ".r", "0", ".blk">>, <<"4", ".r", "0", "1", ".blk">>, <<"5", ".blk">>,
             <<".blk">>, <<"4">>, <<"4", ".tmp">>, <<"9", "8", ".blk">>}
MCKindTable ==
    [percent |-> [over |-> FALSE, by |-> 100, max |-> 1000000], count |-> [over |-> FALSE, by |-> 1, max |-> 64000],
     rate |-> [over |-> FALSE, by |-> 1000, max |-> 500000], bytes |-> [over |-> TRUE, by |-> 4, max |-> 64000]]
MCSamples == {-1, 0, 1, 4, 5, 6, 499, 500, 501, 1999, 2000, 2001, 63999, 64000, 64001, 500000, 500001,
              999995, 1000000, 1000001, 1002000}

-----------------------------------------------------------------------------
(* MailReport: ids that begin one another, and messages that end inside a    *)
(* character at the bound.                                                   *)
MCAgentIds == {<<".", "b">>, <<".", "b", "c">>}
MCDotIds == {<<".">>, <<".", ".">>}
MCAlertLists == {<<>>, <<<<2, 2, 1>>, <<3, 2, 1>>>>}

-----------------------------------------------------------------------------
Symmetry == Permutations(PollTasks) \cup Permutations(RoundSet)

RuleParts == {"rounds", "history", "start", "bucket", "wire", "shown", "snapshots", "calendar",
              "tiers", "codec", "retention", "file", "records", "report"}

\* What a part that does not run starts with.
Environment == CHOOSE e \in Environments : TRUE
Round1 == CHOOSE w \in WireRounds : TRUE
Policy == CHOOSE g \in Globals : TRUE

Idle(name, pinned) == IF rulePart = name THEN TRUE ELSE pinned

RulesInit ==
    /\ rulePart \in RuleParts
    /\ RoundInit /\ HistoryInit /\ TiersInit /\ FileInit /\ RecInit /\ ReportInit
    /\ Idle("start", environment = Environment /\ disk = "missing") /\ HubStartInit
    /\ Idle("bucket", bucket = Full(1, 1, 0)) /\ BucketInit
    /\ Idle("wire", honest = FALSE /\ sent = Round1) /\ WireInit
    /\ Idle("shown", interval = 1 /\ wake = 0 /\ slowest = [scrape |-> 0, poll |-> 0])
    /\ ShownInit
    /\ RuleInit /\ Idle("snapshots", reg.capacity = NoCapacity)
    /\ Idle("calendar", dayNumber = 0) /\ CalendarInit
    /\ CodecInit /\ Idle("codec", chunk.kind = "delta")
    /\ Idle("retention", global = Policy) /\ RetInit

\* Nothing of the other parts changes.
Others(name) ==
    /\ UNCHANGED rulePart
    /\ IF name = "rounds" THEN TRUE ELSE UNCHANGED roundVars
    /\ IF name = "history" THEN TRUE ELSE UNCHANGED histVars
    /\ IF name = "start" THEN TRUE ELSE UNCHANGED startHubVars
    /\ IF name = "bucket" THEN TRUE ELSE UNCHANGED bucketVars
    /\ IF name = "wire" THEN TRUE ELSE UNCHANGED wireVars
    /\ IF name = "shown" THEN TRUE ELSE UNCHANGED shownVars
    /\ IF name = "snapshots" THEN TRUE ELSE UNCHANGED ruleVars
    /\ IF name = "calendar" THEN TRUE ELSE UNCHANGED calVars
    /\ IF name = "tiers" THEN TRUE ELSE UNCHANGED tierVars
    /\ IF name = "codec" THEN TRUE ELSE UNCHANGED codecVars
    /\ IF name = "retention" THEN TRUE ELSE UNCHANGED retVars
    /\ IF name = "file" THEN TRUE ELSE UNCHANGED fileVars
    /\ IF name = "records" THEN TRUE ELSE UNCHANGED recVars
    /\ IF name = "report" THEN TRUE ELSE UNCHANGED reportVars

RulesNext ==
    \/ rulePart = "rounds" /\ RoundNext /\ Others("rounds")
    \/ rulePart = "history" /\ HistoryNext /\ Others("history")
    \/ rulePart = "start" /\ HubStartNext /\ Others("start")
    \/ rulePart = "bucket" /\ BucketNext /\ Others("bucket")
    \/ rulePart = "wire" /\ WireNext /\ Others("wire")
    \/ rulePart = "shown" /\ ShownNext /\ Others("shown")
    \/ rulePart = "snapshots" /\ RuleNext /\ Others("snapshots")
    \/ rulePart = "calendar" /\ NextDay /\ Others("calendar")
    \/ rulePart = "tiers" /\ TiersNext /\ Others("tiers")
    \/ rulePart = "codec" /\ CodecNext /\ Others("codec")
    \/ rulePart = "retention" /\ RetNext /\ Others("retention")
    \/ rulePart = "file" /\ FileNext /\ Others("file")
    \/ rulePart = "records" /\ RecNext /\ Others("records")
    \/ rulePart = "report" /\ ReportNext /\ Others("report")

RulesSpec == RulesInit /\ [][RulesNext]_<<rulePart, ruleSets>>

\* A round means one thing on every path: push and poll agree on it, its digest tells it from any
\* other, its points are distinct, and it is shown fresh while scrapes and polls are quick.
RoundsRead ==
    /\ PathsAgree
    /\ DigestsTellApart
    /\ PointsDistinct
    /\ FreshWhileQuick

\* What the store writes reads back as it was or is refused: chunks, block files with a damaged
\* cell, keys, records, file names, scaled values and calendar times.
FormatsExact ==
    /\ ReopensAsItWas
    /\ EncodesWithinBound
    /\ CutsRefused
    /\ SeriesReadWhole
    /\ DamageNeverMisleads
    /\ PrefixesExact
    /\ RecordsReadBack
    /\ ScanExact
    /\ ScaledReadsBack
    /\ IsoIsCalendar
=============================================================================
