CONSTANTS
    Clones = {c1}
    Procs = {p}
    Home <- OneHome
    Directories = {d1, d2}
    Target <- BothTargets
    Kinds <- PlainOnly
    Sources <- FirstSource
    Trees = {t}
    Here <- ExistsHere
    MaxExports = 3
    MaxChanges = 2
    None = None
    p = p
    q = q
    c1 = c1
    c2 = c2
    d1 = d1
    d2 = d2
    t = t
CHECK_DEADLOCK FALSE
SPECIFICATION BundlesSpec
INVARIANT
    RestingIsOneState
