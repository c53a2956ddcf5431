CONSTANTS
    a = a
    b = b
    s = s
    t = t
    Root = Root
    NoTask = NoTask
    Unregistered = Unregistered
    NoPath = NoPath
    Tasks = {s}
    Paths = {a}
    MaxRequests = 2
    CleanCancelled = TRUE
    GitMayFail = TRUE
SPECIFICATION Spec
PROPERTIES
    DrainRetriesAll
CHECK_DEADLOCK FALSE
