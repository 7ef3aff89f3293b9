CONSTANTS
    Nothing = Nothing
    Calls = {c1}
    Streams = {stdout, stderr}
    MaxChunks = 2
    LifeCap = 1
    StreamCap = 1
    BatchCap = 1
    RotateAt = 2
    Window = 4
    MaxRestarts = 1
SPECIFICATION LogFairSpec
INVARIANTS LogTypeOK NothingVanishes FloodOvertakesOnce ViewerShowsInOrder
PROPERTIES QueuesDrain
CHECK_DEADLOCK FALSE
