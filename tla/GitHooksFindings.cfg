CONSTANTS
    Bodies = {f, g}
    NoBody = NoBody
    RenameMayFail = TRUE
    Racing = FALSE
    MaxEdits = 2
SPECIFICATION Spec
PROPERTIES
    ForceKeepsOriginal
    UninstallRemovesAll
    ByteForByte
    OnlyForceLosesForeign
