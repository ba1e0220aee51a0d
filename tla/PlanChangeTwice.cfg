SPECIFICATION Spec
CONSTANTS
    AdminLegs = {}
    Changes = {c1, c2}
    Plans = {"basic", "pro", "team"}
    Price = 2
    ProviderCancels = FALSE
    MaxCrashes = 0
    Quotes = {0, 1}
    MaxWrites = 0
CHECK_DEADLOCK FALSE
INVARIANT OneChangeCharges
