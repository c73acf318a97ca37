SPECIFICATION Spec
CONSTANTS
    o1 = o1
    Observers = {o1}
    Capacity = 2
    MaxRestarts = 1
INVARIANTS TypeOK SuspendedForCause
PROPERTIES WatchedIsStopped MovesAsPromised
