SPECIFICATION ServicesSpec
CONSTANTS
    p1 = p1
    p2 = p2
    c1 = c1
    c2 = c2
    c3 = c3
    k1 = k1
    k2 = k2
    t1 = t1
    NoChan = NoChan
    Feeder = Feeder
    q1 = q1
    q2 = q2
    q3 = q3
    NoPlugin = NoPlugin
    f1 = f1
    f2 = f2
    x1 = x1
    x2 = x2
    Plain = Plain
    NoLetter = NoLetter
    a1 = a1
    n1 = n1
    n2 = n2
    n3 = n3
    NoTool = NoTool
    i1 = i1
    i2 = i2
    w1 = w1
    W = W
    NoId = NoId
    Global = Global
    Unchecked = Unchecked
    Publishers = {p1, p2}
    SubIds = {Feeder, k1, k2}
    Conns = {k1, k2}
    Channels = {c1, c2, c3}
    Types = {t1}
    Wants <- Everything
    Buffer = 2
    Remotes = {}
    MaxSeq = 2
    Capacity = 2
    Entries <- Numbered
    NoEvent <- Zero
    Plugins = {q1, q2, q3}
    Running = {q1}
    Hooking = {q1, q2, q3}
    Secret = {q1, q3}
    Scheduling = {q1}
    Installers = {1, 2}
    MaxRestarts = 1
    MaxProcs = 2
    MaxCalls = 4
    Files = {f1, f2}
    Txs = {x1, x2}
    Editors = {1}
    MaxEdits = 2
    Letters = {1, 2}
    Retriers = {1, 2}
    MaxAttempts = 2
    Notes = {1, 2, 3, 4}
    Recipients = {a1}
    Addressee <- ToOne
    Readers = {1, 2}
    InboxSize = 2
    MaxSlips = 2
    Tools = {n1, n2, n3}
    Arguments = {1}
    MaxIterations = 4
    MaxToolCalls = 5
    MaxMessages = 6
    AutoContinue = FALSE
    Opening = 2
    OneResult = TRUE
    MaxBatch = 2
    MaxRounds = 6
    Ids = {i1, i2}
    Scopes = {Global}
    Levels = {0}
    Haltors = {w1}
    Resolvers = {w1}
    Maint = {}
    Internal = {W}
    Children <- Flat
    MaxDepth = 0
    CanFail = TRUE
    MaxHalts = 2
    MaxCrashes = 1
    WatchdogLevel = 0
    MaxStalls = 1
INVARIANTS
    ClientOrder
    ReplayIsMissed
    RuntimeMatches
    OffStaysOff
    UndoneIsGone
    ResentBounded
    HubKeepsAll
    PatternCaught
PROPERTIES
    LeavesOthersAlone
CHECK_DEADLOCK FALSE
