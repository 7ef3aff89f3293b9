CONSTANTS
    Calls = {q1, q2}
    Nobody = Nobody
    InCapacity = 1
    OutCapacity = 2
    MaxChunks = 1
    MaxAsks = 1
SPECIFICATION FairSpec
INVARIANTS TypeOK OwnReply OutputBeforeResult
PROPERTIES CallsReturn
