SPECIFICATION FairSpec
CONSTANTS
    Conns = {c1, c2}
    None = None
    MaxPolls = 1
    MaxDeletes = 1
    MaxFaults = 1
INVARIANT PresenceSound
PROPERTIES
    OnlySnapshotsMoveCurrency
    StatusSettles
