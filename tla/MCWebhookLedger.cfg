SPECIFICATION FairSpec
CONSTANTS
    e1 = e1
    r1 = r1
    w1 = w1
    w2 = w2
    e2 = e2
    r2 = r2
    Events = {e1}
    Requests = {r1}
    Workers = {w1, w2}
    MaxAttempts = 2
    JobAttempts = 2
    MaxDeliveries = 2
    MaxFailures = 3
    MaxCrashes = 1
    MaxReplays = 1
CHECK_DEADLOCK FALSE
INVARIANTS
    AckedIsKept
PROPERTIES
    NoNewWorkOnProcessed
    ImplementsDelivery
    AckedIsSettled
