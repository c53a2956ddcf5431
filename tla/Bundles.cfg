CONSTANTS
    Clones = {c1, c2}
    Procs = {p, q}
    Home <- SomeHomes
    Directories = {d1, d2}
    Target <- OwnTargets
    Kinds <- SomeKinds
    Sources <- SomeSources
    Trees = {t}
    Here <- FirstOnly
    MaxExports = 2
    MaxChanges = 2
    None = None
    p = p
    q = q
    c1 = c1
    c2 = c2
    d1 = d1
    d2 = d2
    t = t
CHECK_DEADLOCK FALSE
SPECIFICATION BundlesSpec
INVARIANTS
    BundlesTypeOK
    RefusedOrWhole
    SnapshotIsExport
    LastOnChain
    NextUnused
