CONSTANTS
    TaskIds = {1, 2, 3, 4}
    AgentIds = {1, 2}
    DepIds = {1, 2}
    Names = {1, 2}
    MaxTime = 2
    NoRow = NoRow
    Nobody = Nobody
    A = A
    B = B
    Clones = {A, B}
    First = A
    NoStore = NoStore
    MaxEdits = 2
    MaxSnaps = 2
SPECIFICATION Spec
CHECK_DEADLOCK FALSE
INVARIANTS
    TypeOK
    Commutative
    NumbersUnique
    NewestSurvives
PROPERTIES
    DeletesStick
