SPECIFICATION BackgroundSpec
CONSTANTS
    w1 = w1
    s1 = s1
    s2 = s2
    s3 = s3
    f1 = f1
    Watcher = Watcher
    Scanner = Scanner
    Mails = {1, 2}
    Workspaces = {w1}
    Space <- SpaceDef
    BatchSize = 1
    MaxRetries = 2
    MaxMishaps = 2
    Steps = {s1, s2, s3}
    Graphs <- GraphsDef
    Gated = {s2, s3}
    Conditional = {s1}
    MaxFaults = 1
    Paths = {f1}
    Size <- SizeDef
    EventBuffer = 2
    DispatchSize = 1
    MaxWrites = 3
    MaxScans = 1
    MaxUpsets = 1
INVARIANTS
    CancelApprovesNone
CHECK_DEADLOCK FALSE
