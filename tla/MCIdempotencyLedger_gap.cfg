SPECIFICATION Spec
CONSTANTS
    Keys = {k1, k2, k3}
    Fingerprints = {f1}
    Results = {r1}
    Callers = {c1, c2}
    maximum = 2
    HTTPIdempotencyWindow = 1
    SamplesInOrder = FALSE
    MaxTime = 2
    MaxCalls = 5
SYMMETRY KeysAndCallers
CHECK_DEADLOCK FALSE
INVARIANT WindowsDisjoint
