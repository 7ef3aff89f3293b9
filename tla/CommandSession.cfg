CONSTANTS
    Commands = {c1}
    Terminators = {t1, t2}
    Pids = {p1, p2, p3}
    ProcLimit = 2
    NoPid = NoPid
    Free = Free
    Stranger = Stranger
SPECIFICATION FairSpec
INVARIANTS NoStaleHandle
PROPERTIES HarmNeedsReleasedPid CommandCompletes OverfullJobIsKilled
