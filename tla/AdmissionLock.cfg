CONSTANTS
    p1 = p1
    p2 = p2
    p3 = p3
    p4 = p4
    Procs = {p1, p2, p3}
    Remote = {p3}
    Slow = {p2}
    MaxSteps = 2
    NoDir = NoDir
    Bare = Bare
    OldBare = OldBare
SPECIFICATION FairSpec
CHECK_DEADLOCK FALSE
INVARIANTS
    ExclusionUnlessRobbed
PROPERTIES
    StaleLockReclaimed
    BareLockReclaimed
