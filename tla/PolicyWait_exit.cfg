SPECIFICATION WaitSpec
CONSTANTS
    Setters = {"u1", "u2"}
    SetPolicies = {"p", "q", "bad"}
    BadPolicies = {"bad"}
    MaxRevisions = 3
INVARIANTS
    ExitZeroMeansLoaded
CHECK_DEADLOCK FALSE
