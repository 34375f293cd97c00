SPECIFICATION QSpec
CONSTANTS
    MaxNow = 2
    NSeries = 1
    Period <- MCPeriod
    Batch = 100
    BacklogBound = 1
    MaxFaults = 0
    UnlinkReturns = FALSE
    NoRow = NoRow
    NoFile = NoFile
INVARIANTS
    QueriesSound
