CONSTANTS
    p1 = p1
    p2 = p2
    p3 = p3
    p4 = p4
    Procs = {p1, p2, p3, p4}
    Remote = {}
    Slow = {}
    MaxSteps = 2
    NoDir = NoDir
    Bare = Bare
    OldBare = OldBare
SYMMETRY LocalProcesses
SPECIFICATION Spec
INVARIANTS
    MutualExclusion
CHECK_DEADLOCK FALSE
