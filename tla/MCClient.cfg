\* The pages of the client, one at a time.
SPECIFICATION ClientSpec
CONSTANTS
    p1 = p1
    p2 = p2
    h = h
    None = None
    NotObject = NotObject
    Unparsable = Unparsable
    EmptyText = EmptyText
    Action = "read"
    UserId = 1
    Records <- TheUsers
    Ownerships <- TheOwners
    FieldMatches <- TheMatches
    UserAttrs <- TheAttrs
    Customs <- TheCustoms
    MaxGrants = 2
    MaxBranches = 2
    Listed = {p1, p2}
    Hidden = {h}
    MaxEdits = 3
    Rows = {1, 2, 3}
    Initial = {1, 2}
    CreatedAt <- RowCreatedAt
    NamedAs <- RowNamedAs
    Names = {1, 2}
    Limit = 1
    Sorts <- TheSorts
    Stores <- TheStores
    FlowTabs = {p1, p2}
    NoOne = None
    Users = {1, 2}
    Providers = {"google", "vk"}
    AddressOf <- TheAddresses
    WithPassword = {1}
    MaxPendingStates = 1
    MaxFlows = 2
    MaxLoads = 2
    MaxChanges = 1
INVARIANTS
    ListWithinCheck
    SendsWhatIsShown
    NothingSkipped
    
CHECK_DEADLOCK FALSE
