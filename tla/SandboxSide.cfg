SPECIFICATION SideSpec
CONSTANTS
    Watchers = {"w1"}
    MaxLines = 2
    MaxRecVer = 2
    MaxPushes = 2
    ChannelCap = 1
    BatchSize = 2
    MaxBuffered = 1
    TakeMax = 1
    StreamCap = 1
    TailCap = 2
    TailWanted = 1
    ReceiverCap = 1
    FilePorts = {0, 443}
    FilePortLists <- MCPortLists
    FileHosts = {"h", "*.h", "*", ""}
    FileProtocols = {"", "rest", "REST", "sql", "grpc"}
    FileAccess = {"", "read-only", "other"}
    FileQueries <- MCQueries
    BodyUnits = 2
    Statuses = {101, 200, 204, 304}
    MaxRequests = 3
    MaxPending = 1
    MaxRefused = 2
    ExecAttempts = 2
    ExitCodes = {0, 2}
    MaxChunks = 1
INVARIANTS
    
    
    
    
    ExecSound
CHECK_DEADLOCK FALSE
