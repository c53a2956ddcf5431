CONSTANTS
    w1 = w1
    w2 = w2
    t1 = t1
    o1 = o1
    o2 = o2
    Project = Project
    NoFile = NoFile
    Torn = Torn
    NoOp = NoOp
    Theirs = {t1}
    Unpacked = {}
    Writes = {w1}
    Ops = {o1, o2}
SYMMETRY OpSymmetry
SPECIFICATION Spec
CHECK_DEADLOCK FALSE
PROPERTIES
    ImplementsDatabase
    LossIsBackedUp
    AppliedOnce
