SPECIFICATION FairSpec
CONSTANTS
    Callers = {a1, a2}
    None = None
    Kinds = {"append", "durable", "batched", "points", "read", "peek", "abort", "misuse", "close"}
    QueueCap = 1
    MaxFaults = 1
INVARIANT AnswersTrue
PROPERTY CallsReturn
CHECK_DEADLOCK FALSE
