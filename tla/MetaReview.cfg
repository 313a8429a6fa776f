\* Three transactions of one organization.
SPECIFICATION FairSpec
CONSTANTS
    Txns = {t1, t2, t3}
    t1 = t1
    t2 = t2
    t3 = t3
    MayBe <- SomeKinds
    Thresholds = {90}
    Weightings <- OneWeighting
    Shifts <- OneShift
    MayFail = TRUE
INVARIANTS
    MetaInv
PROPERTIES
    MetaSettles
CHECK_DEADLOCK FALSE
