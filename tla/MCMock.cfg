SPECIFICATION MockSpec
CONSTANTS
    Users = {u1, u2}
    Addresses = {a1, a2}
    Providers = {p1}
    MaxFailed = 2
    MaxSessions = 1
    MaxRequests = 4
    None = None
    RoleIds = {1, 2, 3}
    Names = {"admin", "editor", "writer"}
    Resources = {"users"}
    ActionNames = {"read", "export"}
    Conditions = {"any", "own"}
    Payers = {"owner"}
    Russian = {"owner"}
    Plans = {"pro", "usage"}
    Products = {"pack", "credits"}
    Period = 2
    MaxTime = 1
    MaxCalls = 5
    MaxSubs = 2
    MaxInvoices = 3
    MaxUsage = 1
    MaxMethods = 2
    Nil = None
SYMMETRY Symmetric
CHECK_DEADLOCK FALSE
INVARIANTS
    ClaimsAreDistinct
    RatedOnce
    MockIsSound
PROPERTIES
    GainIsPushed
