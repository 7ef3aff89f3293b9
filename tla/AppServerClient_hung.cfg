CONSTANTS
    Calls = {q1, q2}
    Nobody = Nobody
    InCapacity = 1
    OutCapacity = 1
    MaxChunks = 0
    MaxAsks = 0
SPECIFICATION HungSpec
PROPERTY BoundedCallReturns
