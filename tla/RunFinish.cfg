SPECIFICATION Spec
CONSTANTS
    MaxBudget = 100
    CallCosts = {10}
    MaxCost = 10
    Amounts = {15}
    MaxBatch = 2
    MaxTurns = 2
    MaxIterations = 2
    MaxDepth = 1
    MaxToolErrors = 2
    MaxRepeated = 2
    MaxNoProgress = 2
    Cadences <- ShortCadences
    DriftInterval = 2
INVARIANT FinishCompletes
CHECK_DEADLOCK FALSE
