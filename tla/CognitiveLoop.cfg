\* Three runs on a session of a goal and on a session whose goal text is empty, fair once started.
SPECIFICATION LoopFairSpec
CONSTANTS
    Sessions = {s1, s2}
    Blank = {s2}
    Attached = {s1}
    Runs = {r1, r2, r3}
    MaxIter = 2
    NumNodes = 2
    Assigned = {2}
INVARIANTS
    VerdictInv
PROPERTIES
    RunsEnd
    KeepsPromise
CHECK_DEADLOCK FALSE
