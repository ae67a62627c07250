SPECIFICATION FrontFairSpec
CONSTANTS
    Requests = {r1, r2}
    Fields = {f1, f2}
    MaxEdits = 3
    MaxFlushFailures = 1
INVARIANTS
    LostIsReported
    DrainedHasArrived
PROPERTIES
    EditsArrive
