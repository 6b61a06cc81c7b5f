SPECIFICATION ControlSpec
CONSTANTS
    a1 = a1
    a2 = a2
    m1 = m1
    m2 = m2
    NoAgent = NoAgent
    w1 = w1
    w2 = w2
    d1 = d1
    g1 = g1
    g2 = g2
    Timer = Timer
    Agents = {a1, a2}
    Chief = a1
    Msgs = {m1}
    To <- ToFirst
    Editors = {1}
    Given = {"keep", "idle", "active", "error", "suspended"}
    CanFail = {"list", "peek", "get", "update", "enqueue", "dequeue", "error"}
    MaxFaults = 1
    MaxPrompts = 1
    MaxCrashes = 1
    MaxLoops = 2
    Calls = {w1, w2, d1, g1, g2}
    Tool <- Tools
    Action <- Kinds
    Autonomous = {w1, w2}
    Trusted = {}
    GuardsOn = TRUE
    AutoReads = TRUE
    AllowBypass = FALSE
    PluginGuards = TRUE
    EarlyTimer = FALSE
    MaxHistory = 2
    Keep = 1
INVARIANTS
    DrainsAlone
    ActiveIsServed
    RunsOnlyApproved
PROPERTIES
    ErrorKept
    Served
    WaitersReturn
CHECK_DEADLOCK FALSE
