CONSTANTS
    Clones = {c1, c2}
    Procs = {p, q}
    Version <- SomeVersions
    Ids = {i, j}
    NoId = NoId
    NoProc = NoProc
    NoClone = NoClone
    MaxCommands = 5
    p = p
    q = q
SYMMETRY Renamings
CHECK_DEADLOCK FALSE
SPECIFICATION Spec
INVARIANTS
    OneProject
PROPERTIES
    PullKeepsProject
    ImportKeepsConfig
    RegistryKept
