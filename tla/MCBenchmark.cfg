SPECIFICATION FairSpec
CONSTANTS
    Engines = {"YAJL", "JANSSON", "GLAZE"}
    NoLimits = {"GLAZE"}
    NoSetters = {"YAJL"}
    ParseOnly = {"GLAZE"}
    Options <- MCOptions
    LIMIT_DEPTH = 5
    LIMIT_ARG_NUM = 6
    UINT_MAX = 12
    ULONG_MAX = 12
    INT_MAX = 3
    MaxCells = 2
    NSEC = 3
    MaxOptions = 3
    MaxClock = 6
INVARIANTS
    LimitsExact
    TimesExact
    PrintedOnce
    ParserReleased
PROPERTIES
    Terminates
