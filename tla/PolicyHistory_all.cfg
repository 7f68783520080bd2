SPECIFICATION Spec
CONSTANTS
    h1 = h1
    h2 = h2
    r1 = r1
    r2 = r2
    b1 = b1
    b2 = b2
    e1 = e1
    p1 = p1
    unset = unset
    sandboxed = sandboxed
    other = other
    None = None
    Unset = unset
    Sandboxed = sandboxed
    Handlers <- MCHandlers
    Rules <- MCRules
    Binaries <- MCBinaries
    Endpoints <- MCEndpoints
    Grants <- OneGrant
    Paths <- MCPaths
    Identities <- MCIdentities
    Operations <- Everything
    Payloads <- PlainPayload
    InitialSpecs <- MCAnySpec
    MergeRetryLimit = 2
    MaxVersion = 2
    Faults = TRUE
SYMMETRY Symmetry
INVARIANTS
    NoGaps
PROPERTIES
    AtomicRevisions
