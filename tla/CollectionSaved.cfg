SPECIFICATION TreeSpec
CHECK_DEADLOCK FALSE
CONSTANTS
    Paths = {11, 12, 21}
    Initial = {11}
    Texts = {1, 2}
    MaxOps = 3
    MaxFaults = 0
PROPERTY SavedIsOnDisk
