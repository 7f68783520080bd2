SPECIFICATION ClientsSpec
CONSTANTS
    Clis = {"c1", "c2"}
    CliNames = {"a"}
    CliPorts = {1}
    CliPids = {1}
    MaxBoxId = 2
    MaxTries = 1
    DeployModes = {"k3s", "kind"}
    HostPorts = {1, 2}
    MaxGen = 2
    ImgClis = {"i1", "i2"}
    ImgContexts <- MCContexts
    MaxSeconds = 1
    MaxPulls = 1
    EdgeClis = {"e1", "e2"}
    EdgeNames = {"n", "m"}
    EdgeUrls = {"u1", "u2"}
    EdgePorts = {1}
    MaxLogins = 2
    SshBoxes = {"a", "b"}
    SshGateways = {"g", "h"}
    MaxUserEdits = 3
    MaxInstalls = 2
    Gateways = {"g1", "g2"}
    GatewaySandboxes <- MCGatewaySandboxes
    MaxTasks = 2
    LogSandboxes = {"s1", "s2"}
    BottomPad = 3
    Heights = {1, 4}
    MaxLogLines = 3
    MaxLogQueue = 1
    TunCalls = {"c1", "c2"}
    TunServers = {"s1", "s2"}
    MaxUnits = 2
    MaxListeners = 2
INVARIANTS
    
    DeploySound
    DeliverySound
    LoginSound
    
    FormsSound
    
    TunnelSound
CHECK_DEADLOCK FALSE
