SPECIFICATION Spec
CONSTANTS
    Names = {n1}
    Ids = {i1, i2}
    Deleters = {d1}
    None = None
    MaxQueue = 2
    Faults = {"relist", "external", "error", "cancel", "timeout"}
    EarlyDeletes = FALSE
    Reported = {"transient", "terminal"}
SYMMETRY Symmetry
INVARIANTS  ReconcilerSparesLive
CHECK_DEADLOCK FALSE
