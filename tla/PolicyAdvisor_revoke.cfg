SPECIFICATION AdvSpec
CONSTANTS
    AdvSandboxes = {"s1"}
    Dests = {"d1"}
    FlaggedDests = {"d1"}
    AdvBinaries = {"curl"}
    OwnBinary = "own"
    Deciders = {"h1"}
    MaxDenials = 1
    MaxChunkId = 1
INVARIANTS
    RevokedIsRemoved
CHECK_DEADLOCK FALSE
