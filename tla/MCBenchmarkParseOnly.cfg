SPECIFICATION Spec
CONSTANTS
    Engines = {"GLAZE"}
    NoLimits = {"GLAZE"}
    NoSetters = {}
    ParseOnly = {"GLAZE"}
    Options <- MCFewOptions
    LIMIT_DEPTH = 5
    LIMIT_ARG_NUM = 6
    UINT_MAX = 12
    ULONG_MAX = 12
    INT_MAX = 3
    MaxCells = 2
    NSEC = 3
    MaxOptions = 3
    MaxClock = 4
INVARIANTS
    ArgumentsPrinted
