SPECIFICATION Spec
CONSTANTS
    d1 = d1
    d2 = d2
    s1 = s1
    i1 = i1
    x = x
    y = y
    a = a
    b = b
    c = c
    None = None
    Document = {d1, d2}
    Source = {s1}
    Image = {i1}
    Text = {x, y}
    Fingerprint = {a, b, c}
    Dimension <- Dimensions
    Stem <- Stems
    FirstBinding = a
    ChunksEach = 1
    MaxChunk = 3
    TextLists <- Lists
    MaxTexts = 2
    MaxTasks = 3
    MaxShort = 2
    MaxCrashes = 1
SYMMETRY Symmetry
INVARIANTS
    TypeOK
    OneProvider
    IndexFresh
    Backed
    
