SPECIFICATION Spec
CONSTANTS
    native = native
    source = source
    long = long
    Byte <- MCByte
    Dot <- MCDot
    ArrayName <- MCArrayName
    Keys <- MCKeys
    Data <- MCData
    NativeData <- MCNativeData
    TooLong <- MCTooLong
    JSON_STRING_SIZE = 4
    DepthLimits <- MCDepthLimits
    ArgumentLimits <- MCArgumentLimits
    InitialFrames = 1
    MaxFrames = 1
    Sources <- MCSources
    MaxKeys = 2
INVARIANTS
    TypeOK
    PathIsPosition
    MemorySafe
    NumbersAligned
    LimitsKept
PROPERTIES
    ImplementsExtraction
