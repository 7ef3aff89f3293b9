CONSTANTS
    None = None
    All = All
    Servers = {m1}
    Foreground = {f1}
    Background = {b1, b2}
    MaxReloads = 1
SPECIFICATION FairSpec
INVARIANTS OnlyFlightsRevive FileIsMemory
PROPERTIES ToolsSurviveFailure RefreshEnds
CHECK_DEADLOCK FALSE
