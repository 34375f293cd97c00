SPECIFICATION RulesSpec
CONSTANTS
    RoundConns = {c1}
    PollTasks = {p1, p2}
    RoundSet = {r1, r2}
    RecentRounds = 1
    PaceBurst = 1
    RoundSpacing = 2
    DecodeBurst = 1
    DecodeRefill = 1
    MaxIntakeTime = 2
    MaxStored = 2
    MaxDeleted = 1
    BucketSizes = {1, 2, 3}
    BucketPeriods = {0, 1, 3}
    MaxBucketTime = 8
    MaxTakes = 6
    AgentReports <- MCAgentReports
    WireReports <- MCWireReports
    WireIntervals = {0, 9, 10, 3600, 3601}
    MaxApplicationsOnWire = 2
    ScrapeIntervals = {1, 3, 4}
    PollEvery = 3
    FreshnessSlack = 3
    Delays = {0, 1, 3}
    MaxShownTime = 18
    Readings <- MCReadings
    Intervals = {1, 3, 4}
    I64Max = 3
    U64Max = 7
    MaxDisks = 2
    WarningEvery = 2
    MaxRuleTime = 3
    OwnRetention <- MCOwnRetention
    SnapshotRow = 1
    DefaultRetention = 1
    PrunePerPoint = 1
    PruneBatch = 1
    MaxRows = 3
    MaxHistoryTime = 3
    MaxPasses = 1
    QueryLimits = {0, 1, 2}
    QuerySinces <- MCQuerySinces
    StoredStatuses = {"online", "offline"}
    AgentIds <- MCAgentIds
    MasterKeys = {"k1", "k2"}
    ReportIntervals = {2}
    SampleEvery = 2
    IntervalRange = {2, 3}
    SlackBefore = 1
    SlackAfter = 1
    MailedSamples = 2
    MailedAlerts = 2
    MessageBytes = 4
    AlertLists <- MCAlertLists
    MaxIdBytes = 3
    DotIds <- MCDotIds
    WallStart = 2
    MaxReportTime = 3
    MaxClockSteps = 1
    CalendarStarts <- MCCalendarStarts
    CalendarDays = 1500
    SpanSecs <- MCSpanSecs
    BucketSecs <- MCBucketSecs
    SweepSecs = 1
    MaxRawPoints = 2
    SeriesValues = {1, 2}
    MaxSeriesTime = 12
    MaxSeriesPoints = 3
    WordBits = 5
    VarBits = 2
    DodWidths <- MCDodWidths
    ValueWidths <- MCValueWidths
    MaxRawItems = 3
    MaxRawBytes = 13
    MaxBuckets = 3
    ItemTimes = {0, 1, 2, 3, 5, 9, 18, 31}
    ItemValues <- MCItemValues
    ItemBuckets <- MCItemBuckets
    RetTiers <- MCTiers
    RetSpanLen <- MCRetSpanLen
    MinPeriod <- MCMinPeriod
    MaxPeriod <- MCMaxPeriod
    Globals <- MCGlobals
    Requests <- MCRequests
    Systems = {"s1"}
    Generations = {"g1", "g2"}
    SystemOf <- MCSystemOf
    Inventories <- MCInventories
    StorageCaps <- MCStorageCaps
    MaxRetTime = 3
    BlockSeries = {1, 2}
    MaxSeq = 3
    ChunkLengths = {1, 2}
    IndexBlockEntries = 2
    MaxFileChunks = 3
    MaxFaults = 1
    SystemKeys <- MCSystemKeys
    MetricNames <- MCMetricNames
    MaxSystemKey = 2
    MaxMetricName = 2
    Gens = {1, 2}
    Grid <- MCGrid
    RecTiers <- MCTiers
    BlockNames <- MCBlockNames
    Strays <- MCStrays
    MaxSpanNumber = 90
    MaxRewrite = 9
    KindTable <- MCKindTable
    Samples <- MCSamples
SYMMETRY Symmetry
INVARIANTS
    RoundsOnce
    RateExact
    RoundsRead
    HistoryKept
    ReportsAuthentic
    SeriesWhole
    FormatsExact
PROPERTIES
    SnapshotsKept
    StartsClean
    RetentionSound
CHECK_DEADLOCK FALSE
