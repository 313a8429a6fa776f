\* One item with up to two versions, two concurrent callers.
SPECIFICATION Spec
CONSTANTS
    Items = {i1}
    MaxVersions = 2
    Users = {u1, u2}
SYMMETRY UserSymmetry
INVARIANTS
    VersionInv
    PromotionsBounded
PROPERTIES
    DecisionIsFinal
CHECK_DEADLOCK FALSE
