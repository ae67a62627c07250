SPECIFICATION Spec
CONSTANTS
    Windows = {w1, w2}
    Keys = {k1, k2}
    Values = {v1, v2, v3}
    None = None
SYMMETRY Symmetry
PROPERTIES
    PublishesOwnEdits
    ReplacedStaysReplaced
