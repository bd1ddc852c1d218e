SPECIFICATION Spec
CONSTANTS
    Byte <- MCByte
    Dot <- MCDot
    ArrayName <- MCArrayName
    Keys <- MCKeys
    JSON_STRING_SIZE = 5
    DepthLimits <- MCDepthLimits
    ArgumentLimits <- MCArgumentLimits
    DefaultLimit = 2
    InitialCapacity = 1
    MaxCapacity = 1
    MaxEvents = 2
    MaxChunks = 1
INVARIANTS
    TypeOK
    PathIsPosition
    MemorySafe
    DiagnosticsAgree
PROPERTIES
    NothingLost
    ImplementsExtraction
