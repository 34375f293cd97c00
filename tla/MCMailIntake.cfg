SPECIFICATION IntakeSpec
CONSTANTS
    Reports <- MCReports
    Garbage = Garbage
    Window = 2
    FutureSlack = 1
    Margin = 1
    MaxPerScan = 2
    MaxHubTime = 3
    MaxDeliveries = 3
    MaxFaults = 1
    MaxRequests = 2
INVARIANT MailStoredOnce
PROPERTIES
    MailNeverRewinds
    MailSettles
CHECK_DEADLOCK FALSE
