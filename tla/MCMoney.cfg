SPECIFICATION MoneySpec
CONSTANTS
    AdminLegs = {a1, a2}
    Changes = {c1, c2}
    Plans = {"basic", "pro"}
    Price = 2
    ProviderCancels = TRUE
    MaxCrashes = 1
    Quotes = {0, 1}
    MaxWrites = 1
    LastPeriod = 2
    Keys = {a1, a2}
    Quantity = 2
    Included = 1
    UnitPrice = 3
    Packs = {1}
    PackUnits = 1
    Closers = {c1, c2}
    MaxFailures = 1
    MaxServerCrashes = 1
CHECK_DEADLOCK FALSE
SYMMETRY Alike
INVARIANTS
    WithinPaid
    MovedOncePerKey
    RevokedOnce
    MoneyIsRecorded
    ChargedOnce
    CreditsExplained
PROPERTIES
    LatestClaimSwitches
