\* Three processes of two tenants, two dequeuers, cap 1, at most two starts.
SPECIFICATION SchedSpec
CONSTANTS
    NumProcs = 3
    Orgs = {o1, o2}
    Priorities <- MCPriorities
    Dequeuers = {w1, w2}
    MaxRunning = 1
    MaxAttempts = 2
SYMMETRY DequeuerSymmetry
INVARIANTS
    ExclusivePick
    StartsBounded
    PickIsFresh
    CapOvershootBounded
CHECK_DEADLOCK FALSE
