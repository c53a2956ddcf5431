CONSTANTS
    w1 = w1
    w2 = w2
    t1 = t1
    o1 = o1
    o2 = o2
    Project = Project
    NoFile = NoFile
    Torn = Torn
    NoOp = NoOp
    Theirs = {t1}
    Unpacked = {w2}
    Writes = {w1, w2}
    Ops = {o1, o2}
SPECIFICATION Spec
INVARIANT ApplyRetried
PROPERTY MergeKeepsWrites
CHECK_DEADLOCK FALSE
