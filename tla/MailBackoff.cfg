SPECIFICATION MailClientSpec
CONSTANTS
    MailInterval = 4
    SampleInterval = 2
    Spacing = 1
    FirstRetry = 1
    SmtpTimeout = 1
    Staleness = 1
    MaxSamples = 2
    MaxAlerts = 2
    MaxQueued = 2
    WindowSlack = 2
    Incidents = {1, 2}
    MaxMailTime = 9
INVARIANT SentWhenBackoffAllows
CHECK_DEADLOCK FALSE
