CONSTANTS
    Sessions = {s1, s2, s3}
SPECIFICATION ChatSpec
SYMMETRY Symmetry
INVARIANTS FailedCreateLeavesNothing OnlyKnownWaysLose
PROPERTIES MemoryKeepsLive SaveIsExact
