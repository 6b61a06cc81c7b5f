SPECIFICATION IndexSpec
CONSTANTS
    f1 = f1
    Watcher = Watcher
    Scanner = Scanner
    Paths = {f1}
    Size <- SizeDef
    EventBuffer = 2
    DispatchSize = 1
    MaxWrites = 3
    MaxScans = 1
    MaxUpsets = 0
PROPERTIES
    ChangeIsFound
CHECK_DEADLOCK FALSE
