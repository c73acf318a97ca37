SPECIFICATION FairSpec
CONSTANTS
    e1 = e1  e2 = e2
    None = None
    Paths <- Family
    Execs = {e1, e2}
    MaxChildren = 1
    MaxDepth = 2
    MaxRestarts = 1
INVARIANTS TypeOK SoleExecutor RestMeansNoWork
PROPERTIES DeathIsFinal  KeepsPromise StoppedWindsDown StoppedAgentGoesQuiet
