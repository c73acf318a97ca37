SPECIFICATION FairSpec
CONSTANTS
    e1 = e1  e2 = e2
    None = None
    Paths <- Alone
    Execs = {e1, e2}
    MaxChildren = 1
    MaxDepth = 2
    MaxRestarts = 0
PROPERTY WokenAgentIsRun
