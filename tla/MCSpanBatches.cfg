SPECIFICATION Spec
CONSTANTS
    MaxNow = 2
    NSeries = 2
    Period <- MCPeriod
    Batch = 1
    BacklogBound = 0
    MaxFaults = 1
    UnlinkReturns = FALSE
    NoRow = NoRow
    NoFile = NoFile
INVARIANT OpenNeverRefused
