SPECIFICATION Spec
CONSTANTS
    c1 = c1
    c2 = c2
    agent = agent
    curl = curl
    x = x
    y = y
    get = get
    post = post
    api = api
    ip = ip
    etcd = etcd
    None = None
    Calls <- MCCalls
    Conns = {c1}
    Paths <- MCPaths
    Hashes = {x, y}
    Dests = {api, ip, etcd}
    Literal = {ip}
    ControlPorts = {etcd}
    Chains <- MCChains
    Requests = {get, post}
    Policies <- MCPolicies
    TlsState = FALSE
    MaxWrites = 1
INVARIANTS AcceptedIsGenuine ChainVerified AddressLicensed RequestsObeyPolicy 
PROPERTIES GoldenHash IdentitySpec
SYMMETRY MCSymmetry
