CONSTANTS
    x = x
    y = y
    k1 = k1
    k2 = k2
    wt = wt
    Agents = {x, y}
    Tasks = {k1, k2}
    Places = {wt}
    NoAgent = NoAgent
    NoTask = NoTask
    NoPlace = NoPlace
    DefaultAgent = NoAgent
    Required = TRUE
    Attended = FALSE
    TaskPrefixIsCtx = TRUE
    MaxSessions = 2
SYMMETRY Symmetry
SPECIFICATION ContextSpec
CHECK_DEADLOCK FALSE
INVARIANTS
    LogTellsEnd
    TagBelongsHere
PROPERTIES
    TwoActiveOnlyByResume
