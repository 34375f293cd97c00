SPECIFICATION FairSpec
CONSTANTS
    MaxNow = 2
    NSeries = 1
    Period <- MCPeriod
    Batch = 100
    BacklogBound = 1
    MaxFaults = 1
    UnlinkReturns = FALSE
    NoRow = NoRow
    NoFile = NoFile
INVARIANT OpenNeverRefused
PROPERTY SpansDrain
