\* Two overlapping calls, three failures to open, two successes to close, half of the calls.
SPECIFICATION BreakerSpec
CONSTANTS
    Calls = {c1, c2}
    FailureThreshold = 3
    SuccessThreshold = 2
    RateNum = 1
    RateDen = 2
    MaxTotal = 10
SYMMETRY CallSymmetry
INVARIANTS
    ConsecutiveFailuresOpen
PROPERTIES
    ClosesOnSuccesses
    ErrorRateOpens
CHECK_DEADLOCK FALSE
