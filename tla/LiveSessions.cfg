SPECIFICATION FairSpec
CONSTANTS
    Calls = {c1, c2}
    MaxSessions = 2
    MaxEvents = 2
INVARIANTS
    NoLeakedConnection
PROPERTIES
    ClosedIsFinal
    KeepAliveStops
