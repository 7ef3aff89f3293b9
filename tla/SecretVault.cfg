CONSTANTS
    None = None
    Secrets = {s1, s2}
    Injectors = {g1}
    Threads = {h1, h2}
    Requests = {r1}
    Polls = {p1}
    MaxAnswers = 2
SPECIFICATION MCSpec
INVARIANTS VaultLosesOnlyToStaleWrites UntoldCanBeAnswered
PROPERTIES AnswerArrives
CHECK_DEADLOCK FALSE
