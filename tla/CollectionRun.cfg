SPECIFICATION RunSpec
CONSTANTS
    r1 = r1
    r2 = r2
    k1 = k1
    k2 = k2
    Runs = {r1, r2}
    Cancels = {c1, c2}
    Collections = {k1, k2}
    Asked <- MCAsked
    IterationLimit = 2
    MaxJumps = 1
    NoRun = NoRun
SYMMETRY Symmetric
CHECK_DEADLOCK FALSE
INVARIANTS
    CancelIsShown
    EachItsTurn
