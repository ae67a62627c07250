SPECIFICATION MCSpec
CONSTANTS
    Execs = {e1, e2}
    Cancels = {c1, c2}
    Keys = {k1, k2}
    None = None
INVARIANTS
    AckedCancelWins
    RegistryExact
    NoTransportAfterCancel
PROPERTIES
    CancelTakesEffect
