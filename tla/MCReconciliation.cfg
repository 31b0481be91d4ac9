SPECIFICATION MCSpec
CONSTANTS
    w1 = w1
    w2 = w2
    w3 = w3
    b1 = b1
    b2 = b2
    p1 = p1
    p2 = p2
    o1 = o1
    o2 = o2
    x = x
    y = y
    ux = ux
    uy = uy
    z = z
    Works = {w1, w2, w3}
    Bindings = {b1, b2}
    PlanDigest <- MCPlanDigest
    Owners = {o1, o2}
    maximum = 2
    MaxFence = 3
    Units = {1, 2}
    requestCap = 3
    maximumWork = 2
    MaxPlans = 2
    maximumObservations = 2
    deadline = 3
    MaxTime = 3
    MaxMutations = 4
    Effects = {x, y, ux, uy, z}
    Generation <- MCGeneration
    Inverse <- MCInverse
    DependencyOrder <- MCDependencyOrder
    Idempotent = {y}
    SafelySuperseded <- MCSafelySuperseded
    MaxRevision = 3
    MaxAttempts = 4
    MaxUpdates = 5
    MaxCalls = 3
SYMMETRY OwnersSymmetry
CHECK_DEADLOCK FALSE
INVARIANTS
    WorkAccounted
    ObservationsSerialized
    ObservedTruthIsCurrent
    StrandedOnlyByReplan
    EffectsHappenOnce
    InversesInOrder
    GenerationsSerialized
    CanceledIsAtRest
