SPECIFICATION Spec
CONSTANTS
    a = a
    b = b
    i1 = i1
    i2 = i2
    i3 = i3
    p1 = p1
    p2 = p2
    m1 = m1
    NoId = NoId
    Global = Global
    Unchecked = Unchecked
    Ids = {i1, i2, i3}
    Scopes = {Global, a, b}
    Levels = {0}
    Haltors = {p1}
    Resolvers = {p2}
    Maint = {m1}
    Children <- Pair
    MaxDepth = 2
    CanFail = FALSE
    MaxHalts = 2
    MaxCrashes = 0
    Internal = {}
SYMMETRY Symmetry
INVARIANTS
    HaltsAreEngaged
