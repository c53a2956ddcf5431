CONSTANTS
    x = x
    y = y
    k1 = k1
    k2 = k2
    wt = wt
    Agents = {x, y}
    Tasks = {k1, k2}
    Places = {wt}
    NoAgent = NoAgent
    NoTask = NoTask
    NoPlace = NoPlace
    DefaultAgent = y
    Required = TRUE
    Attended = FALSE
    TaskPrefixIsCtx = TRUE
    MaxSessions = 2
SPECIFICATION ContextSpec
INVARIANT NoCrossTag
CHECK_DEADLOCK FALSE
