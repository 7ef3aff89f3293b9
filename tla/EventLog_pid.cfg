CONSTANTS
    Nothing = Nothing
    Calls = {c1}
    Streams = {stdout}
    MaxChunks = 1
    LifeCap = 2
    StreamCap = 1
    BatchCap = 1
    RotateAt = 2
    Window = 4
    MaxRestarts = 1
SPECIFICATION LogFairSpec
PROPERTY EndedCommandIsForgotten
CHECK_DEADLOCK FALSE
