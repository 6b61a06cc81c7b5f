SPECIFICATION OversightSpec
CONSTANTS
    a = a
    b = b
    i1 = i1
    i2 = i2
    i3 = i3
    p1 = p1
    j1 = j1
    j2 = j2
    c1 = c1
    c2 = c2
    x1 = x1
    NoId = NoId
    Global = Global
    Unchecked = Unchecked
    NoJob = NoJob
    NoBucket = NoBucket
    Ids = {i1, i2, i3}
    Scopes = {Global, a, b}
    Levels = {0}
    Haltors = {p1}
    Resolvers = {p1}
    Maint = {p1}
    Children <- Cycle
    MaxDepth = 2
    CanFail = FALSE
    MaxHalts = 2
    MaxCrashes = 1
    Internal = {}
    Jobs = {j1, j2}
    Cancellers = {c1, c2}
    Commands = 1
    MaxFaults = 1
    Addresses = {x1}
    RPM = 2
    Minute = 3
    MaxAge = 3
    LastTick = 7
    MaxCalls = 3
SYMMETRY Symmetry
INVARIANTS
    HaltsAreEngaged
    SafeModeHasHalt
    CascadeCovers
    EndedIsMarked
    AllowsByWindows
CHECK_DEADLOCK FALSE
