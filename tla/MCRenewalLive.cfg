SPECIFICATION FairSpec
CONSTANTS
    Scans = {s1, s2}
    PeriodLength = 3
    TrialLength = 2
    RetryDelay = 1
    MaxAttempts = 2
    IdempotenceWindow = 1
    Amounts = {1}
    InitialStatuses = {"trialing", "active"}
    LongOutage = FALSE
    MaxCrashes = 0
    MaxClock = 3
CHECK_DEADLOCK FALSE
PROPERTIES DueIsResolved
