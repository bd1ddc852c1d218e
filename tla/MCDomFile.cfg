SPECIFICATION FairSpec
CONSTANTS
    Sizes <- MCSizes
    Capacity = 3
    SIZE_MAX = 20
CHECK_DEADLOCK FALSE
INVARIANTS
    WholeFile
PROPERTIES
    Returns
