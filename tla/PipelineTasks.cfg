\* One task and two attempts; two workers, one administrator.
SPECIFICATION FairSpec
CONSTANTS
    Tasks = {t1}
    Workers = {w1, w2}
    Admins = {a1}
    MaxAttempts = 2
    PoisonThreshold = 1
    MaxEntries = 2
INVARIANTS
    TaskInv
PROPERTIES
    SuccessIsFinal
    EveryTaskSettles
CHECK_DEADLOCK FALSE
