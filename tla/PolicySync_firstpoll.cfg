SPECIFICATION Spec
CONSTANTS
    None = None
    Nets <- MCNets
    Invalid = {"bad"}
    NoRules = "empty"
    Discovered <- MCEmpty
    Submitted <- MCFull
    Global = {}
    InitialSpecs <- MCFromFull
    MaxVersion = 2
    Toggles = FALSE
    Restarts = FALSE
    RpcFailures = FALSE
PROPERTIES EffectivePolicyEnforced
CHECK_DEADLOCK FALSE
