CONSTANTS
    TaskIds = {1, 2, 3}
    AgentIds = {1, 2}
    DepIds = {1, 2, 3}
    Names = {1, 2}
    MaxTime = 2
    NoRow = NoRow
    Nobody = Nobody
    A = A
    B = B
    Clones = {A, B}
    First = A
    NoStore = NoStore
    NoSession = NoSession
    Kept = Kept
    MaxEdits = 2
    MaxSnaps = 1
    MaxMerges = 1
SPECIFICATION ConflictSpec
INVARIANTS
    SessionsOK
PROPERTIES
    LastWord
    OthersFollow
SYMMETRY Symmetry
CHECK_DEADLOCK FALSE
