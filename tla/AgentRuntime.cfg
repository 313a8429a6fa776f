\* Two processes of one session, two runs, one dequeuer, one redelivery, two losses, one late exception.
SPECIFICATION FairSpec
CONSTANTS
    NumProcs = 2
    Orgs = {o1}
    Priorities <- OnePriority
    Dequeuers = {w1}
    MaxRunning = 1
    MaxAttempts = 1
    Sessions = {s1}
    Blank = {}
    Attached = {}
    Runs = {r1, r2}
    MaxIter = 1
    NumNodes = 0
    Assigned = {}
    MaxRedeliveries = 1
    MaxLost = 2
    MaxLate = 1
INVARIANTS
    ProcessInv
    NoLeakedSlot
PROPERTIES
    EveryProcessEnds
CHECK_DEADLOCK FALSE
