CONSTANTS
    Ids = {i1, i2}
    MaxRequests = 2
SPECIFICATION FairSpec
INVARIANTS TableIsExact LateRequestIsDropped
PROPERTIES RequestPromiseKept 
CHECK_DEADLOCK FALSE
