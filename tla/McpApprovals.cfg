SPECIFICATION Spec
CONSTANTS
    Runs = {r1}
    Keys = {k1, k2}
    None = None
    MaxPrompts = 2
    MaxRestarts = 1
SYMMETRY Symmetry
INVARIANTS
    OnlyOnAYes
    RememberedBeforeReleased
    NothingDestroyed
CHECK_DEADLOCK FALSE
