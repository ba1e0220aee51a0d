SPECIFICATION Spec
CONSTANTS
    Scans = {s1, s2}
    PeriodLength = 3
    TrialLength = 2
    RetryDelay = 1
    MaxAttempts = 2
    IdempotenceWindow = 1
    Amounts = {0, 1}
    InitialStatuses = {"active"}
    LongOutage = FALSE
    MaxCrashes = 1
    MaxClock = 4
CHECK_DEADLOCK FALSE
SYMMETRY ScanSymmetry
INVARIANTS ChargedOncePerKey  PaidIsBacked
PROPERTIES PeriodsContiguous RungsSpaced
