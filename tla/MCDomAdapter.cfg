SPECIFICATION AdapterSpec
CONSTANTS
    Byte <- MCByte
    Dot <- MCDot
    Nul <- MCNul
    ArrayName <- MCArrayName
    Keys <- MCKeys
    Data <- MCData
    NativeData <- MCData
    TooLong <- MCTooLong
    JSON_STRING_SIZE = 4
    DepthLimits <- MCDepthLimits
    ArgumentLimits <- MCArgumentLimits
    InitialFrames = 2
    MaxFrames = 8
    Sources <- MCSources
    MaxKeys = 9
    Libraries <- MCLibraries
    Texts <- MCTexts
    InitialSpans = 1
CHECK_DEADLOCK FALSE
INVARIANTS
    AdapterTypeOK
    AcceptedIsComplete
    RefusedForCause
    AllReleased
