SPECIFICATION Spec
CONSTANTS
    Tokens = {t1, t2}
    Sandboxes = {s1}
    Conns = {c1, c2}
    None = None
    MaxPerToken = 1
    MaxPerSandbox = 1
    MaxRestarts = 1
SYMMETRY Symmetry
INVARIANTS CountsMatch TunnelLimits
PROPERTIES StaleTokenRefused
CHECK_DEADLOCK FALSE
