SPECIFICATION AgentSpec
CONSTANTS
    Groups = {"cpu"}
    Cpu = "cpu"
    Plain = {"load"}
    Loads = {"load"}
    Cores = 1
    Levels = {0, 2}
    NaN = NaN
    RuleSets <- MCRuleSets
    Period = 2
    Priming = 1
    CarryBound = 3
    MaxMono = 6
    MaxSteps = 1
    StepSizes = {3}
    MaxReplacements = 1
    MaxPanics = 2
    StaleAfter = 1
    PushTick = 2
    PingEvery = 3
    StreamTick = 1
    RetryDelay = 1
    MaxHistory = 2
    MaxReaderTime = 3
    MaxRounds = 1
    MaxConnections = 2
    MailInterval = 3
    SampleInterval = 2
    Spacing = 2
    FirstRetry = 1
    SmtpTimeout = 1
    Staleness = 1
    MaxSamples = 2
    MaxAlerts = 2
    MaxQueued = 2
    WindowSlack = 2
    Incidents = {1, 2}
    MaxMailTime = 5
    Agents = {a1, a2}
    SourceIds = {m}
    RandomIds = {r1, r2, r3, r4}
    MaxStarts = 2
    MaxOutages = 1
    AppNames = {"a_b", "a_dot_b", "bad name"}
    AppUrls = {"http_remote", "userinfo"}
    AppCredentials = {"unset", "good", "colon"}
    MaxEntries = 2
    MaxApplications = 2
    CredentialKey <- MCCredentialKey
    Seconds = {9, 10, 60, 601, 86401}
    Tokens = {"t", "w"}
    Apps = {a}
    Healths = {"up"}
    Others = {}
    Losable = {"uptime"}
    ScrapeInterval = 1
    RequestTimeout = 1
    UpBefore = 2
    MaxScrapeTime = 2
    MaxServed = 1
    MaxRestarts = 1
    MaxScrapes = 2
    Evidences <- MCEvidences
    LimitTrees <- MCLimitTrees
    FaultSets <- MCFaultSets
    HostAmount <- MCHostAmount
    Unbounded = 99
    BootedBefore = 5
    MaxLevels = 3
    MinUsageInterval = 2
    WorkLoads <- MCWorkLoads
    Footprints <- MCFootprints
    MaxEnvTime = 3
    MaxChanges = 1
INVARIANTS
    AlertsSound
    ReadersServed
    ReportsSound
    StartSound
    ReadingsSound
PROPERTIES
    AlertsEarned
    IdentityKept
    RatesSound
CHECK_DEADLOCK FALSE
