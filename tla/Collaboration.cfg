CONSTANTS
    t1 = t1
    x = x
    y = y
    g1 = g1
    Tasks = {t1}
    Agents = {x, y}
    NoAgent = NoAgent
    Commanders = {x}
    Subagents = {y}
    Qualified <- OnlyCommander
    RoleFree = {}
    SingleActive = TRUE
    StrictCompletion = TRUE
    MaxHandoffs = 2
    MaxItems = 3
    MaxDecisions = 2
    Teams = {g1}
    NoTeam = NoTeam
    NoRow = NoRow
CONSTRAINT Bounds
SPECIFICATION Spec
CHECK_DEADLOCK FALSE
INVARIANTS
    PositionsDistinct
PROPERTIES
    ImplementsTasks
    NothingOpenWhenCompleted
