SPECIFICATION SchedulerSpec
CONSTANTS
    a1 = a1
    a2 = a2
    m1 = m1
    m2 = m2
    NoAgent = NoAgent
    Agents = {a1}
    Chief = a1
    Msgs = {m1, m2}
    To <- ToFirst
    Editors = {1}
    Given = {"keep"}
    CanFail = {}
    MaxFaults = 0
    MaxPrompts = 1
    MaxCrashes = 1
    MaxLoops = 2
INVARIANTS
    OneDrain
