SPECIFICATION FairSpec
CONSTANTS
    Byte <- MCByte
    Dot <- MCDot
    ArrayName <- MCArrayName
    Keys <- MCShortKeys
    JSON_STRING_SIZE = 5
    DepthLimits <- MCLimits
    ArgumentLimits <- MCLimits
    DefaultLimit = 2
    InitialCapacity = 1
    MaxCapacity = 1
    MaxEvents = 1
    MaxChunks = 2
PROPERTY
    FileReturns
