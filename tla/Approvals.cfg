CONSTANTS
    Requests = {a1}
    Callers = {c1, c2}
    Native = TRUE
SPECIFICATION FairSpec
CHECK_DEADLOCK FALSE
INVARIANTS RunningCommandIsListed
PROPERTIES PromiseKept PollerLearns
