\* Two short-term memories, one of which a failed request may have left behind;
\* three requests of any kind, every failure.
SPECIFICATION Spec
CONSTANTS
    Mem = {m1, m2}
    Direct = direct
    Req = {p1, p2, p3}
    Threshold = 1
    Left = {m1}
    MayFail = TRUE
SYMMETRY RequestSymmetry
INVARIANTS
    StoresInv
    PromotedOnce
    DroppedIsStored
CHECK_DEADLOCK FALSE
