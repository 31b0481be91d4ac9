SPECIFICATION MCSpec
CONSTANTS
    p = p
    q = q
    Callers = {p, q}
    Conns = {"k", "j"}
    Generations = {1, 2}
    MaxFlights = 3
    MaxTime = 1
    MaxSourceCacheTTL = 1
    MaxSourceEntries = 2
    MaxConcurrentResolves = 2
SYMMETRY MCSymmetry
CHECK_DEADLOCK FALSE
INVARIANTS
    MaterialsCharged
    MaterialsFollowAuthority
    ClaimsSettledHonestly
