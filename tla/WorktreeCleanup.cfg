CONSTANTS
    a = a
    b = b
    s = s
    t = t
    Root = Root
    NoTask = NoTask
    Unregistered = Unregistered
    NoPath = NoPath
    Tasks = {s, t}
    Paths = {a}
    MaxRequests = 2
    CleanCancelled = TRUE
    GitMayFail = TRUE
SPECIFICATION FairSpec
CHECK_DEADLOCK FALSE
PROPERTIES
    CleanupSparesWork
    FinishedTaskRequested
    CompletedMeansGone
    OnlyFailedStops
    RequestsDrain
