SPECIFICATION GatewaySpec
CONSTANTS
    ProvTypes = {"claude", "codex"}
    ProvNames = {"claude", "codex"}
    CredKeys = {"x"}
    Admins = {"a1"}
    MaxProvId = 2
    ProvPage = 1
    NameTries = 2
    SetKeys = {"k"}
    GlobalValues = {"v1"}
    BoxValues = {"v2"}
    GlobalPolicies = {"p"}
    SetNames = {"a"}
    SetCallers = {"h1", "h2"}
    MaxSetIds = 1
    MaxSetRev = 2
    MaxGlobalRevs = 1
    AdvSandboxes = {"s1"}
    Dests = {"d1"}
    FlaggedDests = {"d1"}
    AdvBinaries = {"curl"}
    OwnBinary = "own"
    Deciders = {"h1", "h2"}
    MaxDenials = 2
    MaxChunkId = 2
    InfProviders = {"p1"}
    InfProtocols <- MCProtocols
    InfAdmins = {"a1"}
    InfConns = {"c1"}
    MaxProvGen = 2
    MaxRouteVer = 2
    MaxFileRoutes = 2
    Setters = {"u1", "u2"}
    SetPolicies = {"p", "q", "bad"}
    BadPolicies = {"bad"}
    MaxRevisions = 3
    ObjIds = {1, 2}
    ObjNames = {1, 2}
    ObjTypes = {"sandbox", "provider"}
    ObjWriters = {"w1"}
    ObjWalkers = {"c1"}
    ObjPageSize = 1
    MaxClock = 1
    MaxPolRows = 2
    h1 = h1
    h2 = h2
    r1 = r1
    r2 = r2
    b1 = b1
    b2 = b2
    e1 = e1
    p1 = p1
    unset = unset
    sandboxed = sandboxed
    other = other
    None = None
    Unset = unset
    Sandboxed = sandboxed
    Handlers <- MCHandlers
    Rules <- MCRules
    Binaries <- MCBinaries
    Endpoints <- MCEndpoints
    Grants <- MCGrants
    Paths <- MCPaths
    Identities <- MCIdentities
    Operations <- NoReports
    Payloads <- MCPayloads
    InitialSpecs <- MCWithSpec
    MergeRetryLimit = 2
    MaxVersion = 4
    Faults = FALSE
INVARIANTS
    
    
    AdvisorSound
    RoutesSound
    WaitSound
    StoreSound
    HistoryCoherent
CHECK_DEADLOCK FALSE
