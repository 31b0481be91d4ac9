SPECIFICATION Spec
CONSTANTS
    c1 = c1
    c2 = c2
    Callers = {c1, c2}
    Tokens <- BothTokens
    KeySets <- Rotation
    Freshness = 2
    RefreshAhead = 1
    RefreshCooldown = 2
    MaxTime = 4
    MaxCalls = 3
SYMMETRY TwoCallers
CHECK_DEADLOCK FALSE
INVARIANTS
    FetchesThrottled
PROPERTY
    StaleKeysNeverUsed
