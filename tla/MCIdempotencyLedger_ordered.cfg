SPECIFICATION Spec
CONSTANTS
    Keys = {k1, k2, k3}
    Fingerprints = {f1, f2}
    Results = {r1, r2}
    Callers = {c1, c2}
    maximum = 2
    HTTPIdempotencyWindow = 1
    SamplesInOrder = TRUE
    MaxTime = 3
    MaxCalls = 4
SYMMETRY KeysAndCallers
CHECK_DEADLOCK FALSE
INVARIANTS
    WindowsDisjoint
    CompletionsReachTheirGrant
