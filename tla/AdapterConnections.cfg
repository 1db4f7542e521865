SPECIFICATION Spec
CONSTANTS
    m = m
    k = k
    n = n
    i1 = i1
    i2 = i2
    h1 = h1
    h2 = h2
    a1 = a1
    None = None
    Memory = {m}
    Knowledge = {k, n}
    Existing = {{m}, {k}}
    Instance = {i1, i2}
    Heartbeat = {h1, h2}
    Admin = {a1}
    Renamable = {k}
    MaxClock = 2
    MaxRowid = 2
    MaxEvents = 2
    OneMove = TRUE
SYMMETRY Symmetry
INVARIANTS
    TypeOK
    UrlsEnd
    WokenWhenCut
    FlagsTell
PROPERTIES
    StaysCut
CHECK_DEADLOCK FALSE
