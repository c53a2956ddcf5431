CONSTANTS
    TaskIds = {1, 2, 3}
    AgentIds = {1, 2, 3}
    DepIds = {1}
    Names = {1, 2}
    MaxTime = 1
    NoRow = NoRow
    Nobody = Nobody
    A = A
    B = B
    Clones = {A, B}
    First = A
    NoStore = NoStore
    MaxEdits = 3
    MaxSnaps = 2
SPECIFICATION Spec
PROPERTY EventsKept
CHECK_DEADLOCK FALSE
