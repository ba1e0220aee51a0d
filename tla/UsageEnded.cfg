SPECIFICATION UsageSpec
CONSTANTS
    LastPeriod = 2
    Keys = {u1, u2}
    Quantity = 2
    Included = 1
    UnitPrice = 3
    Packs = {1}
    PackUnits = 1
    Closers = {c1, c2}
    MaxFailures = 1
    MaxServerCrashes = 1
CHECK_DEADLOCK FALSE
INVARIANTS
    EndedIsInvoiced
