\* Two memories of one owner, the other user's rights change twice; three
\* requests, two of them at the same time.
SPECIFICATION Spec
CONSTANTS
    u1 = u1
    u2 = u2
    m1 = m1
    m2 = m2
    User = {u1, u2}
    Memory = {m1, m2}
    Client = {c1, c2}
    Attachment = {a1, a2}
    Row <- Rows
    Clearance <- Clearances
    Offer <- Asked
    Newcomer = {u2}
    MaxRequests = 3
    MaxChanges = 2
INVARIANTS
    AccessInv
    FilterAgrees
    DecisionsHold
    ReadsAccounted
SYMMETRY Symmetry
CHECK_DEADLOCK FALSE
