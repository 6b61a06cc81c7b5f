SPECIFICATION LoopSpec
CONSTANTS
    n1 = n1
    n2 = n2
    n3 = n3
    NoTool = NoTool
    Tools = {n1, n2, n3}
    Arguments = {1}
    MaxIterations = 5
    MaxToolCalls = 50
    MaxMessages = 6
    AutoContinue = FALSE
    Opening = 2
    OneResult = TRUE
    MaxBatch = 2
    MaxRounds = 6
SYMMETRY Symmetry
INVARIANTS
    ResultsFollowCalls
CHECK_DEADLOCK FALSE
