SPECIFICATION MCSpec
CONSTANTS
    r1 = r1
    w1 = w1
    w2 = w2
    c1 = c1
    c2 = c2
    d1 = d1
    a1 = a1
    a2 = a2
    RowKeys = {r1}
    Bindings <- TwoGenerations
    Owners = {w1, w2}
    maximum = 1
    MaxFence = 3
    StoreLeaseDuration = 3
    DispatchSafetyMargin = 1
    Times = {1, 2, 4}
    RpcTimeouts = {1}
    Deadlines = {0, 2}
    AttemptIDs = {a1, a2}
    ReplacementCells = {d1}
    UseCells = {c1, c2}
SYMMETRY MCSymmetry
INVARIANTS
    DispatchWindowsDisjoint
    CapabilitiesUsedOnce
PROPERTY
    FencedOwnershipSpec
