SPECIFICATION HubSpec
CONSTANTS
    Polls = {p1, p2}
    Capacities = {"m1", "m2"}
    MaxFlaps = 1
    MaxEdits = 1

    Sockets = {s1, s2}
    HandshakeTimeout = 1
    IdleTimeout = 2
    OversizeLinger = 1
    WarningEvery = 2

    Subscribers = {d1, d2}
    MaxVersion = 2
    MaxReadErrors = 1
PROPERTIES
    RegistryKeeps
    RegistryFollows
    SocketsSafe
    SilentLetGo
    FeedNeverGoesBack
    DashboardsConverge
CHECK_DEADLOCK FALSE
