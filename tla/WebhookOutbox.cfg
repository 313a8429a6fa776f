\* Two subscriptions, one audited event, two overlapping dispatchers.
SPECIFICATION FairSpec
CONSTANTS
    Subs = {s1, s2}
    Events = {e1}
    Audited = {e1}
    Interested <- Everything
    Dispatchers = {w1, w2}
    ScheduleLength = 2
    Limit = 2
    MaxAborts = 1
INVARIANTS
    DeliveryInv
    PostsBounded
PROPERTIES
    KeepsOutbox
    EveryDeliverySettles
CHECK_DEADLOCK FALSE
