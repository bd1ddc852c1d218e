SPECIFICATION CppSpec
CONSTANTS
    Byte <- MCByte
    Dot <- MCDot
    ArrayName <- MCArrayName
    Keys <- MCKeys
    JSON_STRING_SIZE = 5
    MaxFrames = 4
    Engines <- MCEngines
    DepthLimits <- MCDepthLimits
    ArgumentLimits <- MCArgumentLimits
    NativeDepth = 2
    Trees <- MCTrees
INVARIANTS
    PathIsPosition
    AnswerIsTrue
PROPERTIES
    ImplementsExtraction
