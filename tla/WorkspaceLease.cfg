SPECIFICATION FairSpec
CONSTANTS
    Windows = {w1, w2}
    Workspaces = {k1, k2}
    Known = {k1}
    Edits = {e1, e2}
    None = None
    MaxLapses = 1
INVARIANTS
    OpenOwns
    AtMostOneOverrun
    RegisteredHasState
PROPERTIES
    NothingSavedIsLost
    RegistryGrows
    PersistEnds
CHECK_DEADLOCK FALSE
