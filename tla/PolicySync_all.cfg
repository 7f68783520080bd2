SPECIFICATION Spec
CONSTANTS
    None = None
    Nets <- MCNets
    Invalid = {"bad"}
    NoRules = "empty"
    Discovered <- MCEmpty
    Submitted <- MCFullBad
    Global <- MCG
    InitialSpecs <- MCFromAny
    MaxVersion = 3
    Toggles = TRUE
    Restarts = TRUE
    RpcFailures = TRUE
INVARIANTS TypeOK LastKnownGood 
PROPERTIES ReportsAreTruthful NewPolicyEnforced
