SPECIFICATION ProgressSpec
CONSTANTS
    p1 = p1
    Requests <- AllRequests
    Callers = {p1}
    Scenarios = {"progress"}
    MaxFlights = 2
    MaxWaiters = 1
    MaxTime = 0
    TTLs = {3}
    MinIssuedSessionTTL = 2
    RefreshAhead = 2
    UseMargin = 2
    MaxSessionEntries = 2
    MaxActiveLeases = 1
    MaxTrackedOperations = 2
    MaxTrackedConnections = 2
    MaxConcurrentRevocations = 1
PROPERTIES
    CallsReturn
