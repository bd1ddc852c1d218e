SPECIFICATION Spec
CONSTANTS
    Byte <- MCByte
    Dot <- MCDot
    ArrayName <- MCArrayName
    Keys <- MCKeys
    JSON_STRING_SIZE = 6
    MaxFrames = 4
INVARIANTS
    TypeOK
    FramesSound
    BufferFits
PROPERTY
    ImplementsArgumentPath
