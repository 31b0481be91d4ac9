SPECIFICATION Spec
CONSTANTS
    c1 = c1
    c2 = c2
    g1 = g1
    g2 = g2
    Callers = {c1, c2}
    Requests <- MCRequests
    Administrators = {"adm"}
    GrantIDs = {g1, g2}
    Proofs = {"p1", "p2"}
    Scopes = {"export"}
    MaxTrackedElevations = 2
    MaxStrongAuthProofAge = 1
    MaxElevationDuration = 2
    MaxContractTime = 3
    CallerTimes = {1, 2, 3}
    MaxClockSamples = 3
SYMMETRY Symmetry
CHECK_DEADLOCK FALSE
INVARIANTS
    OneReceiptPerGrant
PROPERTIES
    AuthorityOnlyShrinks
