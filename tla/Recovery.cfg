SPECIFICATION RecoverySpec
CHECK_DEADLOCK FALSE
CONSTANTS
    Requests = {1, 2}
    Folder = {2}
    MaxEntries = 2
    MaxVersion = 2
    MaxFaults = 2
INVARIANTS
    RestorableIsComplete
    NothingVanishes
    RestoredIsDurable
PROPERTIES
    NoNewerFileOverwritten
