SPECIFICATION FairSpec
CONSTANTS
    MaxBudget = 38
    CallCosts = {0, 9, 44}
    MaxCost = 44
    Amounts = {15}
    MaxBatch = 2
    MaxTurns = 2
    MaxIterations = 2
    MaxDepth = 1
    MaxToolErrors = 2
    MaxRepeated = 2
    MaxNoProgress = 2
    Cadences <- ShortCadences
    DriftInterval = 2
INVARIANTS TypeOK OvershootBounded FinalizeFunded EveryCallAnswered SaveDue ReasonTold
PROPERTIES RunTerminates RunProgresses
CHECK_DEADLOCK FALSE
