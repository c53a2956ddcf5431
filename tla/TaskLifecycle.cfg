CONSTANTS
    t1 = t1
    t2 = t2
    t3 = t3
    commander = commander
    peer = peer
    NoAgent = NoAgent
    Tasks = {t1, t2, t3}
    Agents = {commander, peer}
    Commanders = {commander}
    Subagents = {peer}
    Qualified <- AllQualified
    SingleActive = TRUE
    StrictCompletion = TRUE
SYMMETRY TaskSymmetry
CONSTRAINT CommanderStays
SPECIFICATION Spec
CHECK_DEADLOCK FALSE
INVARIANTS
    Acyclic
PROPERTIES
    GateGuardsWork
    OnlyReopenUngates
    CompletionPromotes
