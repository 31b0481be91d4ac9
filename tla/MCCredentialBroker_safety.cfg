SPECIFICATION MCSpec
CONSTANTS
    p1 = p1
    Requests <- AllRequests
    Callers = {p1}
    Scenarios = {"sessions", "revocation", "rotation"}
    MaxFlights = 3
    MaxWaiters = 1
    MaxTime = 2
    TTLs = {2}
    MinIssuedSessionTTL = 1
    RefreshAhead = 1
    UseMargin = 1
    MaxSessionEntries = 2
    MaxActiveLeases = 1
    MaxTrackedOperations = 2
    MaxTrackedConnections = 2
    MaxConcurrentRevocations = 1
INVARIANTS
    TrackedCellsCurrent
    ResultsHonest
    LimitsHold
