\* Accounts, roles and permissions, the registry and entitlements, one at a time.
SPECIFICATION RightsSpec
CONSTANTS
    p1 = p1
    p2 = p2
    q1 = q1
    q2 = q2
    u1 = u1
    r1 = r1
    r2 = r2
    Users = {p1, p2}
    Slots = {p1, p2}
    Addresses = {q1, q2}
    Providers = {q1, q2}
    MaxRequests = 4
    MaxFailed = 2
    None = None
    Members = {u1}
    Root = root
    Roles = {r1, r2}
    Permissions = {"roles", "export"}
    Administer = "roles"
    HeldAtFirst <- TheHolders
    GrantedAtFirst <- TheGrants
    MaxCalls = 2
    MaxAtOnce = 2
    Unset = None
    Processes = {p1, p2}
    Releases = {"old", "new"}
    FirstRelease = "old"
    Registered <- TheControllers
    Defaults = {"read"}
    Custom = {"export"}
    MaxBoots = 2
    MaxAssigned = 1
    Absent = None
    Plans = {"free", "pro"}
    FreePlan = "free"
    Capabilities <- TheCapabilities
    Bought = "addon"
    MaxChanges = 2
    MaxLost = 1
    MaxFetches = 2
    Nothing = None
SYMMETRY Alike
CHECK_DEADLOCK FALSE
INVARIANTS
    AddressesAreSound
    LoginRemains
    
    AccessIsSound
PROPERTIES
    RegistryIsSound
    
