\* One entry per step of a pass, so a scan takes several commits.  An open may be refused.
SPECIFICATION Spec
CONSTANTS
    MaxNow = 2
    NSeries = 2
    Period <- MCPeriod
    Batch = 1
    BacklogBound = 0
    MaxFaults = 1
    UnlinkReturns = FALSE
    NoRow = NoRow
    NoFile = NoFile
INVARIANTS
    OnePlace
    SpansTracked
PROPERTY RemovalsSound
CHECK_DEADLOCK FALSE
