CONSTANTS
    t1 = t1
    t2 = t2
    t3 = t3
    commander = commander
    peer = peer
    NoAgent = NoAgent
    Tasks = {t1, t2, t3}
    Agents = {commander, peer}
    Commanders = {commander}
    Subagents = {peer}
    Qualified <- RoleHolders
    SingleActive = TRUE
    StrictCompletion = TRUE
SPECIFICATION Spec
CHECK_DEADLOCK FALSE
PROPERTIES
    RevocationAuthorized
    DeactivatedCannotAct
